---- MODULE Spec2Model ----
(***************************************************************************)
(* Model of the Strava webhook intake and retry controller                 *)
(* (src/src/routes/strava.ts), the user repository it calls, the Strava    *)
(* API client's error taxonomy (src/src/services/stravaApi.ts) and the     *)
(* activity enrichment orchestrator (activityProcessor.processActivity).   *)
(*                                                                         *)
(* Text that the code inspects character by character (result.error) is a  *)
(* sequence of one-character strings.  Times are milliseconds, except      *)
(* event_time, which is counted in units of 10^9 seconds so that           *)
(* event_time * 1000 can be compared with the ECMAScript date range.       *)
(***************************************************************************)
EXTENDS Integers, Sequences, FiniteSets, TLC

\* ------------------------------------------------------------------------
\* Bounds of the model
\* ------------------------------------------------------------------------

\* number of webhook handler instances that can be in flight at once
NumProcs == 2

\* number of webhook deliveries one handler instance serves, one after another
MaxDeliveries == 2

Procs == 1..NumProcs

\* the handler instance that serves the routes of the signed-in user
SessionProc == NumProcs + 1

Handlers == Procs \cup {SessionProc}

\* ------------------------------------------------------------------------
\* Program constants
\* ------------------------------------------------------------------------

MAX_PROCESSING_TIME_MS == 8000

MAX_RETRY_ATTEMPTS == 3

RETRY_DELAYS_MS == <<1500, 3000>>

\* Largest time value of a Date (8.64e15 ms), in units of 10^12 ms.
MaxDateValue == 8640

\* ------------------------------------------------------------------------
\* Text
\* ------------------------------------------------------------------------

Digits == <<"0","1","2","3","4","5","6","7","8","9">>

ToLowerChar(c) ==
  LET UpperCaseLetters ==
        <<"A","B","C","D","E","F","G","H","I","J","K","L","M",
          "N","O","P","Q","R","S","T","U","V","W","X","Y","Z">>
      LowerCaseLetters ==
        <<"a","b","c","d","e","f","g","h","i","j","k","l","m",
          "n","o","p","q","r","s","t","u","v","w","x","y","z">>
  IN
  IF \E i \in 1..26 : UpperCaseLetters[i] = c
  THEN LowerCaseLetters[CHOOSE i \in 1..26 : UpperCaseLetters[i] = c]
  ELSE c

\* String.prototype.toLowerCase
toLowerCase(s) == [i \in 1..Len(s) |-> ToLowerChar(s[i])]

\* String.prototype.includes
includes(s, sub) ==
  \E i \in 0..(Len(s) - Len(sub)) : SubSeq(s, i + 1, i + Len(sub)) = sub

\* Number.prototype.toString of a non-negative integer
RECURSIVE toString(_)
toString(n) ==
  IF n < 10 THEN <<Digits[n + 1]>>
  ELSE toString(n \div 10) \o <<Digits[(n % 10) + 1]>>

TxtNotFound == <<"n","o","t"," ","f","o","u","n","d">>

Txt404 == <<"4","0","4">>

\* /^\d+$/.test(s)
IsNumeric(s) ==
  /\ Len(s) > 0
  /\ \A i \in 1..Len(s) : \E d \in 1..10 : Digits[d] = s[i]

\* ------------------------------------------------------------------------
\* JSON values of a request body
\* ------------------------------------------------------------------------

Absent == [t |-> "undefined"]

Num(n) == [t |-> "number", n |-> n]

Str(s) == [t |-> "string", s |-> s]

Bool(b) == [t |-> "boolean", b |-> b]

Arr(v) == [t |-> "array", v |-> v]

IsNumber(v) == v.t = "number"

IsEnum(v, values) == IF v.t = "string" THEN v.s \in values ELSE FALSE

\* z.record(z.any()).optional(): the member is left out or is a plain
\* object; a string, a number or an array is rejected
IsOptionalRecord(v) == v.t \in {"undefined", "object"}

\* the schema without the enumeration of object types
stravaWebhookEventSchema_AnyObjectType(body) ==
  /\ body.object_type.t = "string"
  /\ IsNumber(body.object_id)
  /\ IsEnum(body.aspect_type, {"create", "update", "delete", "deauthorize"})
  /\ IsOptionalRecord(body.updates)
  /\ IsNumber(body.owner_id)
  /\ IsNumber(body.subscription_id)
  /\ IsNumber(body.event_time)

\* z.object({...}).safeParse(req.body).success
stravaWebhookEventSchema(body) ==
  /\ IsEnum(body.object_type, {"activity", "athlete"})
  /\ IsNumber(body.object_id)
  /\ IsEnum(body.aspect_type, {"create", "update", "delete", "deauthorize"})
  /\ IsOptionalRecord(body.updates)
  /\ IsNumber(body.owner_id)
  /\ IsNumber(body.subscription_id)
  /\ IsNumber(body.event_time)

\* ------------------------------------------------------------------------
\* Error messages
\* ------------------------------------------------------------------------

\* stravaApi.ts handleApiError, case 401: "Strava access token expired or invalid"
MsgTokenInvalid ==
  <<
    "S","t","r","a","v","a"," ","a","c","c","e","s","s"," ","t","o",
    "k","e","n"," ","e","x","p","i","r","e","d"," ","o","r"," ","i",
    "n","v","a","l","i","d" >>

\* case 403: "Not authorized to perform this action"
MsgForbidden ==
  <<
    "N","o","t"," ","a","u","t","h","o","r","i","z","e","d"," ","t",
    "o"," ","p","e","r","f","o","r","m"," ","t","h","i","s"," ","a",
    "c","t","i","o","n" >>

\* case 404: "Resource not found or not accessible"
MsgResourceNotFound ==
  <<
    "R","e","s","o","u","r","c","e"," ","n","o","t"," ","f","o","u",
    "n","d"," ","o","r"," ","n","o","t"," ","a","c","c","e","s","s",
    "i","b","l","e" >>

\* case 429: "Rate limit exceeded"
MsgRateLimit ==
  <<
    "R","a","t","e"," ","l","i","m","i","t"," ","e","x","c","e","e",
    "d","e","d" >>

\* default case, before the status: "Strava API error ("
MsgApiErrorPrefix ==
  <<
    "S","t","r","a","v","a"," ","A","P","I"," ","e","r","r","o","r",
    " ","(" >>

\* a response body the upstream may send: "Record Not Found"
BodyNotFound ==
  <<
    "R","e","c","o","r","d"," ","N","o","t"," ","F","o","u","n","d" >>

\* a response body the upstream may send: "Internal Server Error"
BodyServerError ==
  <<
    "I","n","t","e","r","n","a","l"," ","S","e","r","v","e","r"," ",
    "E","r","r","o","r" >>

\* ------------------------------------------------------------------------
\* Error taxonomy of the Strava API client and of the weather service
\* ------------------------------------------------------------------------

\* handleApiError giving the generic message for every status
StravaApiErrorMessage_Generic(status, errorText) ==
  MsgApiErrorPrefix \o toString(status) \o <<")", ":", " ">> \o errorText

\* StravaApiService.handleApiError: the message of the Error it throws
StravaApiErrorMessage(status, errorText) ==
  CASE status = 401 -> MsgTokenInvalid
    [] status = 403 -> MsgForbidden
    [] status = 404 -> MsgResourceNotFound
    [] status = 429 -> MsgRateLimit
    [] OTHER -> MsgApiErrorPrefix \o toString(status) \o <<")", ":", " ">>
                  \o errorText

\* StravaApiService.refreshAccessToken: the message thrown on a non-2xx answer
\* stravaApi.ts refreshAccessToken: "Token refresh failed ("
TokenRefreshErrorMessage(status, errorText) ==
  LET MsgTokenRefreshPrefix ==
        <<
          "T","o","k","e","n"," ","r","e","f","r","e","s","h"," ","f","a",
          "i","l","e","d"," ","(" >>
  IN
  MsgTokenRefreshPrefix \o toString(status) \o <<")", ":", " ">> \o errorText

\* the error axios.get throws for a response outside 2xx, or for a request
\* that got no response because the client-side timeout fired (status 0,
\* code ECONNABORTED)
AxiosError(status) ==
  LET MsgAxiosStatusPrefix ==
        <<
          "R","e","q","u","e","s","t"," ","f","a","i","l","e","d"," ","w","i",
          "t","h"," ","s","t","a","t","u","s"," ","c","o","d","e"," " >>
      MsgAxiosTimeout ==
        <<
          "t","i","m","e","o","u","t"," ","o","f"," ","5","0","0","0","m","s",
          " ","e","x","c","e","e","d","e","d" >>
  IN
  [isAxiosError |-> TRUE, status |-> status,
   message |-> IF status = 0 THEN MsgAxiosTimeout
               ELSE MsgAxiosStatusPrefix \o toString(status)]

\* weatherService.ts lines 227-229 and 289-291, and formatWeatherData
\* (311-332): the message of the TypeError or RangeError thrown while the
\* body of an answer is read, <<>> when none is.  `body.data` tells what
\* response.data is, `body.payload` what its `current`, or its `data` for
\* the time machine, is (absent, an empty array or an array with, or the,
\* object of conditions), `body.weather` what that object's `weather` is
\* and `body.dt` whether it has a numeric dt.
ReadWeatherData(source, body) ==
  LET CannotRead(of, prop) ==
        <<
          "C","a","n","n","o","t"," ","r","e","a","d"," ","p","r","o","p","e",
          "r","t","i","e","s"," ","o","f"," " >>
        \o of \o
        <<" ","(","r","e","a","d","i","n","g"," ","'">> \o prop \o <<"'",")">>
      undefined == <<"u","n","d","e","f","i","n","e","d">>
      historical == source = "historical"
  IN
  IF body.data \in {"undefined", "null"}
  THEN CannotRead(IF body.data = "null" THEN <<"n","u","l","l">>
                  ELSE undefined,
                  IF historical THEN <<"d","a","t","a">>
                  ELSE <<"c","u","r","r","e","n","t">>)
  ELSE IF body.data = "text" \/ body.payload = "absent"
  THEN CannotRead(undefined,
                  IF historical THEN <<"0">> ELSE <<"t","e","m","p">>)
  ELSE IF body.payload = "empty" /\ historical
  THEN CannotRead(undefined, <<"t","e","m","p">>)
  ELSE IF body.payload = "empty" \/ body.weather = "absent"
  THEN CannotRead(undefined, <<"0">>)
  ELSE IF body.weather = "empty"
  THEN CannotRead(undefined, <<"m","a","i","n">>)
  ELSE IF ~body.dt
  THEN <<
       "I","n","v","a","l","i","d"," ","t","i","m","e"," ","v","a","l","u","e" >>
  ELSE <<>>

\* WeatherService.handleApiError, of what the catch block caught
\* weatherService.ts handleApiError, 401: "Weather API authentication failed"
\* weatherService.ts handleApiError, 429: "Weather API rate limit exceeded"
\* weatherService.ts handleApiError, ECONNABORTED: "Weather API request timeout"
\* weatherService.ts handleApiError, otherwise: "Weather API error: "
WeatherApiErrorMessage(error) ==
  LET MsgWeatherAuth ==
        <<
          "W","e","a","t","h","e","r"," ","A","P","I"," ","a","u","t","h",
          "e","n","t","i","c","a","t","i","o","n"," ","f","a","i","l","e",
          "d" >>
      MsgWeatherRate ==
        <<
          "W","e","a","t","h","e","r"," ","A","P","I"," ","r","a","t","e",
          " ","l","i","m","i","t"," ","e","x","c","e","e","d","e","d" >>
      MsgWeatherTimeout ==
        <<
          "W","e","a","t","h","e","r"," ","A","P","I"," ","r","e","q","u",
          "e","s","t"," ","t","i","m","e","o","u","t" >>
      MsgWeatherApiPrefix ==
        <<
          "W","e","a","t","h","e","r"," ","A","P","I"," ","e","r","r","o",
          "r",":"," " >>
  IN
  IF error.isAxiosError /\ error.status = 401 THEN MsgWeatherAuth
  ELSE IF error.isAxiosError /\ error.status = 429 THEN MsgWeatherRate
  ELSE IF error.isAxiosError /\ error.status = 0 THEN MsgWeatherTimeout
  ELSE MsgWeatherApiPrefix \o error.message

\* WeatherService.getWeatherForActivity: the message it rethrows
\* weatherService.ts getWeatherForActivity, catch: "Failed to fetch weather data: "
WeatherErrorMessage(error) ==
  LET MsgWeatherPrefix ==
        <<
          "F","a","i","l","e","d"," ","t","o"," ","f","e","t","c","h"," ",
          "w","e","a","t","h","e","r"," ","d","a","t","a",":"," " >>
  IN
  MsgWeatherPrefix \o WeatherApiErrorMessage(error)

\* ------------------------------------------------------------------------
\* Processing outcomes (ProcessingResult) and the users table
\* ------------------------------------------------------------------------

\* a result variable that starts out as a success
NullResult_StartsAsSuccess ==
  [kind |-> "null", success |-> TRUE, skipped |-> FALSE, reason |-> "",
   error |-> <<>>]

\* let result: ProcessingResult | null = null
NullResult ==
  [kind |-> "null", success |-> FALSE, skipped |-> FALSE, reason |-> "",
   error |-> <<>>]

\* processActivity rejected (an exception crossed the orchestrator boundary)
Threw ==
  [kind |-> "threw", success |-> FALSE, skipped |-> FALSE, reason |-> "",
   error |-> <<>>]

SuccessResult ==
  [kind |-> "result", success |-> TRUE, skipped |-> FALSE, reason |-> "",
   error |-> <<>>]

SkippedResult(reason) ==
  [kind |-> "result", success |-> TRUE, skipped |-> TRUE, reason |-> reason,
   error |-> <<>>]

FailureResult(message) ==
  [kind |-> "result", success |-> FALSE, skipped |-> FALSE, reason |-> "",
   error |-> message]

NoUser == [id |-> "null", stravaAthleteId |-> <<>>, weatherEnabled |-> FALSE,
           accessToken |-> "none"]

\* owner_id of the athlete who has an account, and of one who has none
KnownOwner == Num(12345)

UnknownOwner == Num(999)

KnownUser(enabled) ==
  [id |-> "user-123", stravaAthleteId |-> toString(KnownOwner.n),
   weatherEnabled |-> enabled, accessToken |-> "stored"]

\* ids of the rows of the users table: the id of the account stored at the
\* start and the one gen_random_uuid() gives to the account of a new sign-up
UserIds == {"user-123", "user-456", "user-789"}

\* UserRepository.findByStravaAthleteId, when the query succeeds
findByStravaAthleteId(table, stravaAthleteId) ==
  IF \E u \in table : u.stravaAthleteId = stravaAthleteId
  THEN CHOOSE u \in table : u.stravaAthleteId = stravaAthleteId
  ELSE NoUser

\* UserRepository.findById, when the query succeeds
findById(table, id) ==
  IF \E u \in table : u.id = id
  THEN CHOOSE u \in table : u.id = id
  ELSE NoUser

\* ------------------------------------------------------------------------
\* Activity descriptions: a sequence of blocks of text, each either text the
\* athlete wrote or a weather summary written by the enrichment.
\* ------------------------------------------------------------------------

\* a marker check that looks at the first block only
hasWeatherData_FirstBlockOnly(description) ==
  Len(description) > 0 /\ description[1] = "weather"

hasWeatherData(description) ==
  \E i \in 1..Len(description) : description[i] = "weather"

\* the description written back: the fetched one with the summary appended
withWeather(description) == Append(description, "weather")

\* ------------------------------------------------------------------------
\* State
\* ------------------------------------------------------------------------

\* per handler instance: the webhook request it is serving
VARIABLE req

\* rows of the users table
VARIABLE users

\* the activity held by Strava
VARIABLE activity

\* number of description updates adding weather text written upstream
VARIABLE puts

\* for each row id, the number of times a row with that id was deleted
VARIABLE deleted

\* The service calls made outside the webhook handler, one variable per
\* service: each holds the call being made and what it has answered so far.
VARIABLE tokenCall

VARIABLE client

VARIABLE weatherCall

VARIABLE verification

serviceVars == <<tokenCall, client, weatherCall, verification>>

vars == <<req, users, activity, puts, deleted, tokenCall, client, weatherCall,
          verification>>

\* A service on which no call has been made.
Idle == [pc |-> "idle"]

NoBody ==
  [object_type |-> Absent, object_id |-> Absent, aspect_type |-> Absent,
   updates |-> Absent, owner_id |-> Absent, subscription_id |-> Absent, event_time |-> Absent]

NoCall == [fetched |-> FALSE, description |-> <<>>, token |-> "none",
           enrichedBefore |-> FALSE, wrote |-> FALSE]

\* A handler instance that has served `served` deliveries and is idle.
FreshRequest(served) ==
  [pc |-> "idle", route |-> "webhook", served |-> served, body |-> NoBody,
   param |-> Absent, elapsed |-> 0, gate |-> "none",
   user |-> NoUser, attempts |-> 0, result |-> NullResult,
   invocations |-> 0, finds |-> 0, deletes |-> 0,
   revoked |-> [kind |-> "none", logged |-> "none", status |-> 0],
   outcomes |-> <<>>, lastDuration |-> 0, lastStart |-> 0, slept |-> <<>>,
   call |-> NoCall,
   status |-> 0, message |-> "", respAttempts |-> 0, respSuccess |-> FALSE,
   respSkipped |-> FALSE, respUserId |-> "null"]

Init ==
  /\ req = [p \in Handlers |-> FreshRequest(0)]
  /\ \E enabled \in BOOLEAN : users = {KnownUser(enabled)}
  /\ \E d \in {<<>>, <<"text">>, <<"text", "weather">>}, c \in BOOLEAN :
       activity = [description |-> d, hasCoordinates |-> c]
  /\ puts = 0
  /\ deleted = [id \in UserIds |-> 0]
  /\ (/\ tokenCall = Idle
      /\ client = Idle
      /\ weatherCall = Idle
      /\ verification = Idle)

\* The webhook handler at rest, for the specifications of the single services.
WebhookIdle ==
  /\ req = [p \in Handlers |-> FreshRequest(0)]
  /\ users = {KnownUser(TRUE)}
  /\ activity = [description |-> <<>>, hasCoordinates |-> TRUE]
  /\ puts = 0
  /\ deleted = [id \in UserIds |-> 0]

webhookVars == <<req, users, activity, puts, deleted>>

\* ------------------------------------------------------------------------
\* POST /webhook: responses
\* ------------------------------------------------------------------------

\* res.status(200).json({ message })
Acknowledge(r, message) ==
  [r EXCEPT !.pc = "done", !.status = 200, !.message = message]

\* An exception that leaves the route handler: asyncHandler passes it to the
\* error-handling middleware, which answers with the error's status, 500.
asyncHandlerRejected(r) ==
  [r EXCEPT !.pc = "done", !.status = 500, !.message = "error"]

\* the final response with the last call counted among the attempts
WebhookProcessed_CountsLastCall(r) ==
  [r EXCEPT !.pc = "done", !.status = 200, !.message = "Webhook processed",
            !.respAttempts = r.attempts + 1,
            !.respSuccess = r.result.success,
            !.respSkipped = r.result.skipped]

\* lines 278-311: the final response of the retry loop
WebhookProcessed(r) ==
  [r EXCEPT !.pc = "done", !.status = 200, !.message = "Webhook processed",
            !.respAttempts = r.attempts,
            !.respSuccess = r.result.success,
            !.respSkipped = r.result.skipped]

\* the call activityProcessor.processActivity(activityId, user.id, attempts)
InvokeProcessActivity(r) ==
  [r EXCEPT !.pc = "pa_load", !.invocations = r.invocations + 1,
            !.lastStart = r.elapsed, !.call = NoCall]

\* the loop guard without the bound on the number of attempts
LoopTop_NoAttemptBound(r) ==
  IF r.elapsed < MAX_PROCESSING_TIME_MS
  THEN IF r.attempts > 0
       THEN [r EXCEPT !.pc = "sleeping"]
       ELSE InvokeProcessActivity(r)
  ELSE WebhookProcessed(r)

\* lines 214-236: the loop guard, then either the pre-attempt sleep, the
\* call of processActivity, or the final response
LoopTop(r) ==
  IF /\ r.attempts < MAX_RETRY_ATTEMPTS
     /\ r.elapsed < MAX_PROCESSING_TIME_MS
  THEN IF r.attempts > 0
       THEN [r EXCEPT !.pc = "sleeping"]
       ELSE InvokeProcessActivity(r)
  ELSE WebhookProcessed(r)

\* the delay taken from the head of RETRY_DELAYS_MS every time
RetryDelay_AlwaysFirst(attempts) ==
  RETRY_DELAYS_MS[1]

\* lines 221-225: the delay before the attempt that follows `attempts` failures
RetryDelay(attempts) ==
  LET delayIndex ==
        IF attempts - 1 < Len(RETRY_DELAYS_MS) - 1
        THEN attempts - 1 ELSE Len(RETRY_DELAYS_MS) - 1
  IN RETRY_DELAYS_MS[delayIndex + 1]

\* a catch block that lets the exception leave the handler
CatchBlock_Rethrows(r) ==
  asyncHandlerRejected(r)

\* lines 261-275: the catch block of the loop body records the error,
\* counts the attempt and lets the loop go on
CatchBlock(r) ==
  LoopTop([r EXCEPT !.attempts = r.attempts + 1])

\* lines 237-275: what the handler does with the outcome of one call of
\* processActivity that took `duration` ms
AfterProcessActivity(r, outcome, duration) ==
  LET r1 == [r EXCEPT !.elapsed = r.elapsed + duration,
                      !.lastDuration = duration,
                      !.outcomes = Append(r.outcomes, outcome)]
      errorLower == toLowerCase(outcome.error)
  IN IF outcome.kind = "threw"
     THEN CatchBlock(r1)
     ELSE LET r2 == [r1 EXCEPT !.result = outcome]
          IN IF outcome.success \/ outcome.skipped
             THEN WebhookProcessed(r2)
             ELSE IF \/ includes(errorLower, TxtNotFound)
                     \/ includes(errorLower, Txt404)
                  THEN LoopTop([r2 EXCEPT !.attempts = r.attempts + 1])
                  ELSE WebhookProcessed(r2)

\* ------------------------------------------------------------------------
\* POST /api/activities/process/:activityId: responses
\* ------------------------------------------------------------------------

\* res.status(status).json({ message }): the response is sent and the
\* locals of the request are gone
Respond(r, status, message) ==
  [FreshRequest(r.served) EXCEPT !.route = r.route, !.pc = "done",
                                 !.status = status, !.message = message]

\* getSuccessMessage(result)
getSuccessMessage(result) ==
  IF result.skipped
  THEN IF result.reason = "Already has weather data"
       THEN "Activity already contains weather data"
       ELSE IF result.reason = "Weather updates disabled"
       THEN "Weather updates are currently disabled for your account"
       ELSE IF result.reason = "No GPS coordinates"
       THEN "Activity processed but no weather added (missing GPS data)"
       ELSE <<"Activity was skipped: ", result.reason>>
  ELSE "Activity processed successfully with weather data"

\* getErrorStatusCode(result.error); an empty error text is falsy
getErrorStatusCode(error) ==
  LET errorLower == toLowerCase(error)
  IN IF error = <<>> THEN 400
     ELSE IF includes(errorLower, TxtNotFound) \/ includes(errorLower, Txt404)
     THEN 404
     ELSE IF \/ includes(errorLower,
                          <<"u","n","a","u","t","h","o","r","i","z","e","d">>)
             \/ includes(errorLower, <<"4","0","1">>)
     THEN 401
     ELSE IF \/ includes(errorLower,
                          <<"r","a","t","e"," ","l","i","m","i","t">>)
             \/ includes(errorLower, <<"4","2","9">>)
     THEN 429
     ELSE IF \/ includes(errorLower,
                          <<"u","n","a","v","a","i","l","a","b","l","e">>)
             \/ includes(errorLower, <<"5","0","3">>)
     THEN 503
     ELSE 400

\* lines 457-510: what the manual route does with the outcome of its one call
\* of processActivity; an exception leaves the handler.  The record of the
\* call and its result are kept with the answer.
ManualResponse(r, outcome) ==
  IF outcome.kind = "threw"
  THEN [Respond(r, 500, "error") EXCEPT !.call = r.call]
  ELSE IF outcome.success
  THEN [Respond(r, 200, getSuccessMessage(outcome)) EXCEPT
          !.call = r.call, !.result = outcome,
          !.respSuccess = TRUE, !.respSkipped = outcome.skipped]
  ELSE [Respond(r, getErrorStatusCode(outcome.error),
                "Failed to process activity") EXCEPT
          !.call = r.call, !.result = outcome,
          !.respSkipped = outcome.skipped]

\* processActivity returns to the route that called it
ProcessActivityReturns(r, outcome, duration) ==
  IF r.route = "process"
  THEN ManualResponse(r, outcome)
  ELSE AfterProcessActivity(r, outcome, duration)

\* ------------------------------------------------------------------------
\* POST /webhook: the route handler, one action per stretch of code between
\* two awaits
\* ------------------------------------------------------------------------

\* lines 83-207: from the start of the request to the first await.  `limit`
\* is the number of deliveries the handler instance may serve.
PostWebhook(p, body, limit) ==
  /\ p \in Procs
  /\ req[p].pc \in {"idle", "done"}
  /\ req[p].served < limit
  /\ LET r == [FreshRequest(req[p].served + 1) EXCEPT !.body = body]
     IN req' = [req EXCEPT ![p] =
          IF ~stravaWebhookEventSchema(body)
          THEN Acknowledge(r, "Invalid event acknowledged")
          ELSE IF (\/ body.event_time.n > MaxDateValue
                   \/ body.event_time.n < 0 - MaxDateValue)
          THEN asyncHandlerRejected(r)
          ELSE IF /\ body.object_type.s = "athlete"
                  /\ body.aspect_type.s = "deauthorize"
          THEN [r EXCEPT !.pc = "deauth_find", !.finds = 1]
          ELSE IF \/ body.object_type.s # "activity"
                  \/ body.aspect_type.s # "create"
          THEN Acknowledge(r, "Event acknowledged")
          ELSE [r EXCEPT !.pc = "gate_find", !.finds = 1]]
  /\ UNCHANGED <<users, activity, puts, deleted>>
  /\ UNCHANGED serviceVars

\* lines 123-136 and 152-162: the lookup of the deauthorizing athlete returns
DeauthFind(p, queryOk) ==
  /\ req[p].pc = "deauth_find"
  /\ LET r == req[p]
         user == findByStravaAthleteId(users, toString(r.body.owner_id.n))
     IN req' = [req EXCEPT ![p] =
          IF ~queryOk
          THEN Acknowledge(r, "Deauthorization acknowledged")
          ELSE IF user = NoUser
          THEN Acknowledge(r, "Deauthorization acknowledged")
          ELSE [r EXCEPT !.pc = "deauth_delete", !.user = user,
                         !.deletes = r.deletes + 1]]
  /\ UNCHANGED <<users, activity, puts, deleted>>
  /\ UNCHANGED serviceVars

\* lines 138-162 with UserRepository.deleteByStravaAthleteId: the delete
\* returns; it throws when the query fails or when no row was deleted
DeauthDelete(p, queryOk) ==
  /\ req[p].pc = "deauth_delete"
  /\ LET r == req[p]
         stravaAthleteId == toString(r.body.owner_id.n)
         rows == {u \in users : u.stravaAthleteId = stravaAthleteId}
     IN IF queryOk /\ rows # {}
        THEN /\ users' = users \ rows
             /\ deleted' = [id \in UserIds |->
                  deleted[id] + Cardinality({u \in rows : u.id = id})]
             /\ req' = [req EXCEPT ![p] =
                  [Acknowledge(r, "Deauthorization processed")
                     EXCEPT !.respUserId = r.user.id]]
        ELSE /\ req' = [req EXCEPT ![p] =
                  Acknowledge(r, "Deauthorization acknowledged")]
             /\ UNCHANGED <<users, deleted>>
  /\ UNCHANGED <<activity, puts>>
  /\ UNCHANGED serviceVars

\* lines 180-217: the lookup of the activity's owner returns after
\* `duration` ms; an exception of the repository leaves the handler
GateFind(p, queryOk, duration) ==
  /\ req[p].pc = "gate_find"
  /\ LET r == [req[p] EXCEPT !.elapsed = req[p].elapsed + duration]
         user == findByStravaAthleteId(users, toString(r.body.owner_id.n))
     IN req' = [req EXCEPT ![p] =
          IF ~queryOk
          THEN asyncHandlerRejected([r EXCEPT !.gate = "failed"])
          ELSE IF user = NoUser
          THEN Acknowledge([r EXCEPT !.gate = "unknown"],
                           "Event acknowledged")
          ELSE IF ~user.weatherEnabled
          THEN Acknowledge([r EXCEPT !.gate = "disabled"],
                           "Event acknowledged")
          ELSE LoopTop([r EXCEPT !.user = user, !.gate = "enabled"])]
  /\ UNCHANGED <<users, activity, puts, deleted>>
  /\ UNCHANGED serviceVars

\* lines 234-241: the pre-attempt sleep ends and processActivity is called
SleepDone(p) ==
  /\ req[p].pc = "sleeping"
  /\ LET r == req[p]
         delay == RetryDelay(r.attempts)
     IN req' = [req EXCEPT ![p] =
          InvokeProcessActivity(
            [r EXCEPT !.elapsed = r.elapsed + delay,
                      !.slept = Append(r.slept, delay)])]
  /\ UNCHANGED <<users, activity, puts, deleted>>
  /\ UNCHANGED serviceVars

\* ------------------------------------------------------------------------
\* activityProcessor.processActivity, one action per awaited call.  Every
\* action that ends the call takes the duration of the whole call.
\* ------------------------------------------------------------------------

\* step 1: load the account; a missing row or a failing query propagates
PaLoad(p, queryOk, duration) ==
  /\ req[p].pc = "pa_load"
  /\ LET r == req[p]
         account == findById(users, r.user.id)
     IN req' = [req EXCEPT ![p] =
          IF ~queryOk \/ account = NoUser
          THEN ProcessActivityReturns(r, Threw, duration)
          ELSE [r EXCEPT !.pc = "pa_token", !.user = account,
                         !.call.token = account.accessToken]]
  /\ UNCHANGED <<users, activity, puts, deleted>>
  /\ UNCHANGED serviceVars

\* step 2: ensureValidToken; a refreshed pair is persisted at once
PaToken(p, needsRefresh, status, errorText, persistOk, duration) ==
  /\ req[p].pc = "pa_token"
  /\ LET r == req[p]
         rows == {u \in users : u.id = r.user.id}
     IN IF ~needsRefresh
        THEN /\ req' = [req EXCEPT ![p] = [r EXCEPT !.pc = "pa_fetch"]]
             /\ UNCHANGED users
        ELSE IF status # 200
        THEN /\ req' = [req EXCEPT ![p] =
                  ProcessActivityReturns(r,
                    FailureResult(TokenRefreshErrorMessage(status, errorText)),
                    duration)]
             /\ UNCHANGED users
        ELSE IF ~persistOk \/ rows = {}
        THEN /\ req' = [req EXCEPT ![p] =
                  ProcessActivityReturns(r, Threw, duration)]
             /\ UNCHANGED users
        ELSE /\ users' = (users \ rows) \cup
                  {[u EXCEPT !.accessToken = "refreshed"] : u \in rows}
             /\ req' = [req EXCEPT ![p] =
                  [r EXCEPT !.pc = "pa_fetch", !.call.token = "refreshed"]]
  /\ UNCHANGED <<activity, puts, deleted>>
  /\ UNCHANGED serviceVars

\* steps 3 and 4: getActivity answers; then the decision gate
PaFetch(p, status, errorText, duration) ==
  /\ req[p].pc = "pa_fetch"
  /\ LET r == [req[p] EXCEPT !.call.fetched = (status = 200),
                             !.call.description = activity.description,
                             !.call.enrichedBefore = (puts > 0)]
     IN req' = [req EXCEPT ![p] =
          IF status # 200
          THEN ProcessActivityReturns(r,
                 FailureResult(StravaApiErrorMessage(status, errorText)),
                 duration)
          ELSE IF hasWeatherData(activity.description)
          THEN ProcessActivityReturns(r,
                 SkippedResult("Already has weather data"), duration)
          ELSE IF ~r.user.weatherEnabled
          THEN ProcessActivityReturns(r,
                 SkippedResult("Weather updates disabled"), duration)
          ELSE IF ~activity.hasCoordinates
          THEN ProcessActivityReturns(r,
                 SkippedResult("No GPS coordinates"), duration)
          ELSE [r EXCEPT !.pc = "pa_weather"]]
  /\ UNCHANGED <<users, activity, puts, deleted>>
  /\ UNCHANGED serviceVars

\* step 5: the weather service answers
PaWeather(p, status, duration) ==
  /\ req[p].pc = "pa_weather"
  /\ LET r == req[p]
     IN req' = [req EXCEPT ![p] =
          IF status # 200
          THEN ProcessActivityReturns(r,
                 FailureResult(WeatherErrorMessage(AxiosError(status))),
                 duration)
          ELSE [r EXCEPT !.pc = "pa_update"]]
  /\ UNCHANGED <<users, activity, puts, deleted>>
  /\ UNCHANGED serviceVars

\* steps 6 to 8: updateActivity answers
PaUpdate(p, status, errorText, duration) ==
  /\ req[p].pc = "pa_update"
  /\ LET r == req[p]
     IN IF status # 200
        THEN /\ req' = [req EXCEPT ![p] =
                  ProcessActivityReturns(r,
                    FailureResult(StravaApiErrorMessage(status, errorText)),
                    duration)]
             /\ UNCHANGED <<activity, puts>>
        ELSE /\ activity' = [activity EXCEPT
                  !.description = withWeather(r.call.description)]
             /\ puts' = puts + 1
             /\ req' = [req EXCEPT ![p] =
                  ProcessActivityReturns([r EXCEPT !.call.wrote = TRUE],
                    SuccessResult, duration)]
  /\ UNCHANGED <<users, deleted>>
  /\ UNCHANGED serviceVars

\* ------------------------------------------------------------------------
\* The routes of the signed-in user.  The request arrives with the session
\* of user `session` ("none": without one); passport.deserializeUser looks
\* the session's user up, and without a session or a row req.user is unset.
\* ------------------------------------------------------------------------

\* the row a sign-in of the known athlete inserts: its id is the first of
\* the ids, in the order in which they are given out, that no row ever had
SignedUp(table, gone) ==
  LET order == <<"user-123", "user-456", "user-789">>
      unused == {i \in 1..Len(order) :
                   gone[order[i]] = 0 /\ \A u \in table : u.id # order[i]}
  IN {[KnownUser(TRUE) EXCEPT !.id = order[i]] :
        i \in {j \in unused : \A k \in unused : j <= k}}

\* passport.deserializeUser: the lookup of the session's user; a user that
\* is gone leaves the request without req.user, a rejected lookup is passed
\* to done(error)
deserializeUser(table, session, queryOk) ==
  IF session = "none" THEN [kind |-> "none", user |-> NoUser]
  ELSE IF ~queryOk THEN [kind |-> "error", user |-> NoUser]
  ELSE LET user == findById(table, session)
       IN IF user = NoUser THEN [kind |-> "none", user |-> NoUser]
          ELSE [kind |-> "user",
                user |-> [NoUser EXCEPT
                            !.id = user.id,
                            !.stravaAthleteId = user.stravaAthleteId]]

\* a request to a route behind authenticateUser: the middleware answers 401
\* without a session, and else issues its own lookup of the account
SessionRequest(r, table, session, queryOk) ==
  LET found == deserializeUser(table, session, queryOk)
  IN IF found.kind = "error"
     THEN Respond(r, 500, "error")
     ELSE IF found.kind = "none"
     THEN Respond(r, 401, "Please log in to continue")
     ELSE [r EXCEPT !.pc = "auth_find", !.user = found.user]

\* POST /api/activities/process/:activityId
PostProcess(p, session, lookupOk, activityId, limit) ==
  /\ p = SessionProc
  /\ req[p].pc \in {"idle", "done"}
  /\ req[p].served < limit
  /\ req' = [req EXCEPT ![p] =
       SessionRequest([FreshRequest(req[p].served + 1) EXCEPT
                         !.route = "process", !.param = Str(activityId)],
                      users, session, lookupOk)]
  /\ UNCHANGED <<users, activity, puts, deleted>>
  /\ UNCHANGED serviceVars

\* PATCH /api/users/me with body { weatherEnabled: value }
PatchMe(p, session, lookupOk, value, limit) ==
  /\ p = SessionProc
  /\ req[p].pc \in {"idle", "done"}
  /\ req[p].served < limit
  /\ req' = [req EXCEPT ![p] =
       SessionRequest([FreshRequest(req[p].served + 1) EXCEPT
                         !.route = "patch_me", !.param = value],
                      users, session, lookupOk)]
  /\ UNCHANGED <<users, activity, puts, deleted>>
  /\ UNCHANGED serviceVars

\* DELETE /api/users/me
DeleteMe(p, session, lookupOk, limit) ==
  /\ p = SessionProc
  /\ req[p].pc \in {"idle", "done"}
  /\ req[p].served < limit
  /\ req' = [req EXCEPT ![p] =
       SessionRequest([FreshRequest(req[p].served + 1) EXCEPT
                         !.route = "delete_me"],
                      users, session, lookupOk)]
  /\ UNCHANGED <<users, activity, puts, deleted>>
  /\ UNCHANGED serviceVars

\* an answer of DELETE /auth/revoke to an authenticated request; what the
\* request did is kept with it
RevokeAnswer(r, status, message) ==
  [Respond(r, status, message) EXCEPT
     !.user = r.user, !.finds = r.finds, !.deletes = r.deletes,
     !.revoked = r.revoked]

\* DELETE /auth/revoke, lines 203-216: the route checks req.isAuthenticated()
\* itself and then issues its lookup of the account
AuthRevoke(p, session, lookupOk, limit) ==
  /\ p = SessionProc
  /\ req[p].pc \in {"idle", "done"}
  /\ req[p].served < limit
  /\ LET r == [FreshRequest(req[p].served + 1) EXCEPT !.route = "revoke"]
         found == deserializeUser(users, session, lookupOk)
     IN req' = [req EXCEPT ![p] =
          IF found.kind = "error"
          THEN Respond(r, 500, "error")
          ELSE IF found.kind = "none"
          THEN Respond(r, 401, "Not authenticated")
          ELSE [r EXCEPT !.pc = "revoke_find", !.user = found.user]]
  /\ UNCHANGED <<users, activity, puts, deleted>>
  /\ UNCHANGED serviceVars

\* lines 218-224: userRepository.findById inside the try block returns; a
\* rejected query is caught at line 228, and without a row or a token
\* revokeToken is not called.
RevokeFind(p, queryOk) ==
  /\ req[p].pc = "revoke_find"
  /\ LET r == [req[p] EXCEPT !.finds = @ + 1]
         account == findById(users, r.user.id)
     IN req' = [req EXCEPT ![p] =
          IF queryOk /\ account # NoUser /\ account.accessToken # ""
          THEN [r EXCEPT !.pc = "revoke_token"]
          ELSE [r EXCEPT !.pc = "statement"]]
  /\ UNCHANGED <<users, activity, puts, deleted>>
  /\ UNCHANGED serviceVars

\* revokeToken with a response that is not ok rethrown to the caller.
revokeToken_ThrowsOnNonOk(status) ==
  IF status >= 200 /\ status <= 299
    THEN [kind |-> "resolved", logged |-> "info", status |-> status]
    ELSE [kind |-> "threw", logged |-> "warn", status |-> status]

\* revokeToken (stravaApi.ts 300-324): the POST to the deauthorize URL
\* answers `status`, 0 standing for a fetch that rejected; the promise it
\* returns resolves either way, after logging the outcome.
revokeToken(status) ==
  IF status >= 200 /\ status <= 299
    THEN [kind |-> "resolved", logged |-> "info", status |-> status]
    ELSE [kind |-> "resolved", logged |-> "warn", status |-> status]

\* lines 224-230: await stravaApiService.revokeToken(user.accessToken)
\* settles; what it throws, if anything, is caught and logged, and the
\* delete statement is issued.
RevokeTokenCall(p, status) ==
  /\ req[p].pc = "revoke_token"
  /\ req' = [req EXCEPT ![p] =
       [req[p] EXCEPT !.pc = "statement", !.revoked = revokeToken(status)]]
  /\ UNCHANGED <<users, activity, puts, deleted>>
  /\ UNCHANGED serviceVars

\* GET /auth/strava/callback of the known athlete.  `query` tells what the
\* request carries: a state that differs from the session's, the error of a
\* denied authorization, no code, or a code, for which the strategy sends
\* the token exchange.  The ids that gen_random_uuid() gives to new rows are
\* drawn from UserIds: a sign-in is served while one of them is unused.
OAuthCallback(p, query, limit) ==
  /\ p = SessionProc
  /\ req[p].pc \in {"idle", "done"}
  /\ req[p].served < limit
  /\ SignedUp(users, deleted) # {}
  /\ LET r == [FreshRequest(req[p].served + 1) EXCEPT
                 !.route = "oauth_callback"]
     IN req' = [req EXCEPT ![p] =
          IF query = "state mismatch"
          THEN Respond(r, 302, "/auth/error?error=Invalid state")
          ELSE IF query \in {"denied", "no code"}
          THEN Respond(r, 302, "/auth/error")
          ELSE [r EXCEPT !.pc = "exchange"]]
  /\ UNCHANGED <<users, activity, puts, deleted>>
  /\ UNCHANGED serviceVars

\* exchangeCodeForTokens, passport.ts 47-56: the fetch settles; status 0 is
\* a fetch that rejected, which the strategy passes to done(error)
ExchangeResponds(p, status) ==
  /\ req[p].pc = "exchange"
  /\ req' = [req EXCEPT ![p] =
       IF status = 0
       THEN Respond(req[p], 500, "error")
       ELSE [req[p] EXCEPT !.pc = "exchange_body", !.param = Num(status)]]
  /\ UNCHANGED <<users, activity, puts, deleted>>
  /\ UNCHANGED serviceVars

\* passport.ts 58-63 and 84-92: the body of the token response is read.  A
\* response that is not ok throws after its text is read, a body that is
\* not JSON throws, one without athlete fails the sign-in, and else the
\* upsert statement is issued.
ExchangeBodyRead(p, body) ==
  /\ req[p].pc = "exchange_body"
  /\ LET r == req[p]
         ok == r.param.n >= 200 /\ r.param.n <= 299
     IN req' = [req EXCEPT ![p] =
          IF ~ok \/ body = "not json"
          THEN Respond(r, 500, "error")
          ELSE IF body = "no athlete"
          THEN Respond(r, 302, "/auth/error")
          ELSE [r EXCEPT !.pc = "statement"]]
  /\ UNCHANGED <<users, activity, puts, deleted>>
  /\ UNCHANGED serviceVars

\* authenticateUser's lookup returns and the route handler runs up to its
\* first await: the manual route checks the activity id and calls
\* processActivity (strava.ts 433-459), the account routes check the body
\* and issue their statement.  userUpdateSchema (users.ts 20-22) is
\* z.object({ weatherEnabled: z.boolean() }); the message of the first issue
\* of a failed safeParse, which lines 178-181 append, is zod's text for a
\* value of the wrong type or for a missing one.
AuthenticateUser(p, queryOk) ==
  /\ req[p].pc = "auth_find"
  /\ LET r == req[p]
         user == findById(users, r.user.id)
         issue == IF r.param.t = "undefined" THEN "Required"
                  ELSE "Expected boolean, received " \o r.param.t
     IN req' = [req EXCEPT ![p] =
          IF ~queryOk
          THEN Respond(r, 500, "An error occurred during authentication")
          ELSE IF user = NoUser
          THEN Respond(r, 401, "User account not found")
          ELSE IF r.route = "process"
          THEN IF ~IsNumeric(r.param.s)
               THEN Respond(r, 400, "Activity ID must be numeric")
               ELSE InvokeProcessActivity([r EXCEPT !.user = user])
          ELSE IF r.route = "patch_me" /\ r.param.t # "boolean"
          THEN Respond(r, 400, "Invalid request data: " \o issue)
          ELSE [r EXCEPT !.pc = "statement", !.user = user]]
  /\ UNCHANGED <<users, activity, puts, deleted>>
  /\ UNCHANGED serviceVars

\* The statement of an account route returns: userRepository.upsert,
\* userRepository.update or userRepository.delete; update and delete throw
\* when no row matches.  PATCH /me and DELETE /me answer at once; the
\* sign-in goes on to the login of the session and DELETE /auth/revoke to
\* the logout.
AccountStatement(p, queryOk) ==
  /\ req[p].pc = "statement"
  /\ req[p].route = "oauth_callback" =>
       \/ \E u \in users : u.stravaAthleteId = toString(KnownOwner.n)
       \/ SignedUp(users, deleted) # {}
  /\ LET r == req[p]
         rows == {u \in users : u.id = r.user.id}
         athlete == {u \in users :
                       u.stravaAthleteId = toString(KnownOwner.n)}
         attempted == [r EXCEPT !.deletes = @ + 1]
     IN IF r.route = "oauth_callback"
        THEN IF ~queryOk
             THEN /\ req' = [req EXCEPT ![p] = Respond(r, 500, "error")]
                  /\ UNCHANGED <<users, deleted>>
             ELSE /\ users' =
                       IF athlete # {}
                       THEN (users \ athlete) \cup
                            {[u EXCEPT !.accessToken = "stored",
                                       !.weatherEnabled = TRUE] :
                               u \in athlete}
                       ELSE users \cup SignedUp(users, deleted)
                  /\ req' = [req EXCEPT ![p] = [r EXCEPT !.pc = "login"]]
                  /\ UNCHANGED deleted
        ELSE IF r.route = "patch_me"
        THEN IF ~queryOk \/ rows = {}
             THEN /\ req' = [req EXCEPT ![p] = Respond(r, 500, "error")]
                  /\ UNCHANGED <<users, deleted>>
             ELSE /\ users' = (users \ rows) \cup
                       {[u EXCEPT !.weatherEnabled = r.param.b] : u \in rows}
                  /\ req' = [req EXCEPT ![p] =
                       Respond(r, 200, "User settings updated successfully")]
                  /\ UNCHANGED deleted
        ELSE IF ~queryOk \/ rows = {}
        THEN /\ req' = [req EXCEPT ![p] =
                  IF r.route = "revoke"
                  THEN RevokeAnswer(attempted, 500, "error")
                  ELSE Respond(r, 500,
                         "Failed to delete account. Please try again.")]
             /\ UNCHANGED <<users, deleted>>
        ELSE /\ users' = users \ rows
             /\ deleted' = [id \in UserIds |->
                  deleted[id] + Cardinality({u \in rows : u.id = id})]
             /\ req' = [req EXCEPT ![p] =
                  IF r.route = "revoke"
                  THEN [attempted EXCEPT !.pc = "logout"]
                  ELSE Respond(r, 200,
                         "Your account has been deleted successfully")]
  /\ UNCHANGED <<activity, puts>>
  /\ UNCHANGED serviceVars

\* A callback of the session runs: passport's login after the sign-in, then
\* the redirect of the route's last handler (auth router 70-80); on DELETE
\* /auth/revoke the callback of req.logout, which calls
\* req.session.destroy, and then the callback of that, which answers (auth
\* router 235-244).
SessionCallback(p) ==
  /\ req[p].pc \in {"login", "logout", "destroy"}
  /\ LET r == req[p]
     IN req' = [req EXCEPT ![p] =
          IF r.pc = "login" THEN Respond(r, 302, "/auth/success")
          ELSE IF r.pc = "logout" THEN [r EXCEPT !.pc = "destroy"]
          ELSE RevokeAnswer(r, 200, "Account deleted successfully")]
  /\ UNCHANGED <<users, activity, puts, deleted>>
  /\ UNCHANGED serviceVars

\* ------------------------------------------------------------------------
\* Inputs
\* ------------------------------------------------------------------------

\* events that match the schema without the optional member `updates`; the
\* event time 8641 (8.641e12 s) is a number whose Date is out of range
EventsWithoutUpdates ==
  [object_type : {Str("activity"), Str("athlete")},
   object_id : {Num(123456)},
   aspect_type : {Str("create"), Str("update"), Str("delete"),
                  Str("deauthorize")},
   updates : {Absent},
   owner_id : {KnownOwner, UnknownOwner},
   subscription_id : {Num(98765)},
   event_time : {Num(2), Num(8641)}]

\* events that match the schema: the ones above, and the update events of
\* the known athlete that carry the record of changed fields
\* the bodies that differ from `body` in one field that the schema rejects
Bodies ==
  LET ValidBodies ==
        EventsWithoutUpdates \cup
        {[b EXCEPT !.updates = [t |-> "object"]] :
           b \in {e \in EventsWithoutUpdates :
                    /\ e.aspect_type = Str("update")
                    /\ e.owner_id = KnownOwner
                    /\ e.event_time = Num(2)}}
      MalformedLike(body) ==
        {[body EXCEPT !.object_type = v] :
           v \in {Str("invalid"), Num(1), Absent}}
        \cup {[body EXCEPT !.object_id = v] : v \in {Str("123456"), Absent}}
        \cup {[body EXCEPT !.aspect_type = v] : v \in {Str("created"), Absent}}
        \cup {[body EXCEPT !.updates = v] :
                v \in {Str("x"), Num(5), Arr(<<>>)}}
        \cup {[body EXCEPT !.owner_id = v] : v \in {Str("12345"), Absent}}
        \cup {[body EXCEPT !.subscription_id = v] : v \in {Absent}}
        \cup {[body EXCEPT !.event_time = v] : v \in {Str("now"), Absent}}
      MalformedBodies ==
        {NoBody} \cup
        UNION {MalformedLike(body) :
                 body \in {b \in EventsWithoutUpdates :
                             /\ b.owner_id = KnownOwner
                             /\ b.event_time = Num(2)
                             /\ b.aspect_type \in
                                  {Str("create"), Str("deauthorize")}}}
  IN
  ValidBodies \cup MalformedBodies

\* the user of the session of a request: none, or the id of a row
Sessions == {"none"} \cup UserIds

ErrorTexts == {BodyServerError, BodyNotFound}

FetchStatuses == {200, 401, 404, 500}

WeatherStatuses == {200, 0, 401, 404}

UpdateStatuses == {200, 404, 500}

TokenStatuses == {200, 400}

\* ------------------------------------------------------------------------
\* Specification: one handler instance serving deliveries one after another,
\* with every input, every outcome of the collaborators and every timing
\* ------------------------------------------------------------------------

\* Requests are served one after another: a delivery arrives while no
\* request of the signed-in user is being served, and the other way round.
AtRest(p) == req[p].pc \in {"idle", "done"}

\* the events a delivery to handler p may carry now
\* the events of a redelivery: every delivery after the first one of a
\* handler repeats an enrichment or a deauthorization of the known athlete
DeliveryBodies(p) ==
  LET LaterBodies ==
        {b \in EventsWithoutUpdates :
           /\ b.owner_id = KnownOwner
           /\ b.event_time = Num(2)
           /\ \/ b.object_type = Str("activity") /\ b.aspect_type = Str("create")
              \/ b.object_type = Str("athlete")
                 /\ b.aspect_type = Str("deauthorize")}
  IN
  IF ~AtRest(SessionProc) THEN {}
  ELSE IF req[p].served > 0 THEN LaterBodies
  ELSE Bodies

\* the requests of the signed-in user, with collaborators that answer
\* the sessions a request of the signed-in user may carry now: the one of
\* the account stored at the start
NextSession ==
  \E p \in {SessionProc} :
    \/ \E session \in {u \in {"user-123"} : AtRest(1)} :
         PostProcess(p, session, TRUE, <<"1","2","3","4","5","6">>, 1)
    \/ \E session \in {u \in {"user-123"} : AtRest(1)},
          enabled \in BOOLEAN :
         PatchMe(p, session, TRUE, Bool(enabled), 1)
    \/ \E session \in {u \in {"user-123"} : AtRest(1)} :
         DeleteMe(p, session, TRUE, 1)
    \/ \E session \in {u \in {"user-123"} : AtRest(1)} :
         AuthRevoke(p, session, TRUE, 1)
    \/ \E limit \in {n \in {1} : AtRest(1)} : OAuthCallback(p, "code", limit)
    \/ ExchangeResponds(p, 200)
    \/ ExchangeBodyRead(p, "athlete")
    \/ AuthenticateUser(p, TRUE)
    \/ RevokeFind(p, TRUE)
    \/ RevokeTokenCall(p, 200)
    \/ AccountStatement(p, TRUE)
    \/ SessionCallback(p)
    \/ PaLoad(p, TRUE, 0)
    \/ PaToken(p, FALSE, 200, BodyServerError, TRUE, 0)
    \/ PaFetch(p, 200, BodyServerError, 0)
    \/ PaWeather(p, 200, 0)
    \/ PaUpdate(p, 200, BodyServerError, 0)

NextWebhook ==
  \E p \in {1} :
    \/ \E body \in DeliveryBodies(p) : PostWebhook(p, body, MaxDeliveries)
    \/ \E queryOk \in BOOLEAN : DeauthFind(p, queryOk)
    \/ \E queryOk \in BOOLEAN : DeauthDelete(p, queryOk)
    \/ \E queryOk \in BOOLEAN, d \in {0, 8000} : GateFind(p, queryOk, d)
    \/ SleepDone(p)
    \/ \E queryOk \in BOOLEAN, d \in {100, 7000} : PaLoad(p, queryOk, d)
    \/ \E needsRefresh \in BOOLEAN, status \in TokenStatuses,
          persistOk \in BOOLEAN, d \in {100, 7000} :
         PaToken(p, needsRefresh, status, BodyServerError, persistOk, d)
    \/ \E status \in FetchStatuses, text \in ErrorTexts, d \in {100, 7000} :
         PaFetch(p, status, text, d)
    \/ \E status \in WeatherStatuses, d \in {100, 7000} :
         PaWeather(p, status, d)
    \/ \E status \in UpdateStatuses, text \in ErrorTexts, d \in {100, 7000} :
         PaUpdate(p, status, text, d)

Next == NextWebhook \/ NextSession

Spec == Init /\ [][Next]_vars

\* ------------------------------------------------------------------------
\* Specification: the routes of the signed-in user on their own, two
\* requests one after the other, for every session, every parameter and
\* every answer of the collaborators
\* ------------------------------------------------------------------------

NextSessionAlone ==
  \E p \in {SessionProc} :
    \/ \E session \in Sessions, lookupOk \in BOOLEAN,
          activityId \in {<<"1","2","3","4","5","6">>, <<"a","b","c">>} :
         PostProcess(p, session, lookupOk, activityId, 2)
    \/ \E session \in Sessions, lookupOk \in BOOLEAN,
          value \in {Bool(TRUE), Bool(FALSE), Str("yes"), Num(1), Absent} :
         PatchMe(p, session, lookupOk, value, 2)
    \/ \E session \in Sessions, lookupOk \in BOOLEAN :
         DeleteMe(p, session, lookupOk, 2)
    \/ \E session \in Sessions, lookupOk \in BOOLEAN :
         AuthRevoke(p, session, lookupOk, 2)
    \/ \E query \in {"state mismatch", "denied", "no code", "code"} :
         OAuthCallback(p, query, 2)
    \/ \E status \in {200, 400, 0} : ExchangeResponds(p, status)
    \/ \E body \in {"not json", "no athlete", "athlete"} :
         ExchangeBodyRead(p, body)
    \/ \E queryOk \in BOOLEAN : AuthenticateUser(p, queryOk)
    \/ \E queryOk \in BOOLEAN : RevokeFind(p, queryOk)
    \/ \E status \in {200, 500, 0} : RevokeTokenCall(p, status)
    \/ \E queryOk \in BOOLEAN : AccountStatement(p, queryOk)
    \/ SessionCallback(p)
    \/ \E queryOk \in BOOLEAN : PaLoad(p, queryOk, 0)
    \/ \E needsRefresh \in BOOLEAN, status \in TokenStatuses,
          persistOk \in BOOLEAN :
         PaToken(p, needsRefresh, status, BodyServerError, persistOk, 0)
    \/ \E status \in FetchStatuses, text \in ErrorTexts :
         PaFetch(p, status, text, 0)
    \/ \E status \in WeatherStatuses : PaWeather(p, status, 0)
    \/ \E status \in UpdateStatuses, text \in ErrorTexts :
         PaUpdate(p, status, text, 0)

SpecSession == Init /\ [][NextSessionAlone]_vars

\* ------------------------------------------------------------------------
\* Specification: the host HTTP server dispatches deliveries to several
\* handler instances at once; each serves one delivery for the known athlete
\* (a new activity or a deauthorization), attempts take no measurable time
\* and the collaborators answer, the activity being possibly not readable yet
\* ------------------------------------------------------------------------

NextConcurrent ==
  \E p \in Handlers :
    \/ \E body \in ([object_type : {Str("activity")}, object_id : {Num(123456)},
                     aspect_type : {Str("create")}, updates : {Absent},
                     owner_id : {KnownOwner},
                     subscription_id : {Num(98765)}, event_time : {Num(2)}]
                    \cup
                    [object_type : {Str("athlete")}, object_id : {KnownOwner},
                     aspect_type : {Str("deauthorize")}, updates : {Absent},
                     owner_id : {KnownOwner},
                     subscription_id : {Num(98765)}, event_time : {Num(2)}]) :
         PostWebhook(p, body, 1)
    \/ PostProcess(p, "user-123", TRUE, <<"1","2","3","4","5","6">>, 1)
    \/ PatchMe(p, "user-123", TRUE, Bool(FALSE), 1)
    \/ DeleteMe(p, "user-123", TRUE, 1)
    \/ AuthRevoke(p, "user-123", TRUE, 1)
    \/ OAuthCallback(p, "code", 1)
    \/ ExchangeResponds(p, 200)
    \/ ExchangeBodyRead(p, "athlete")
    \/ AuthenticateUser(p, TRUE)
    \/ RevokeFind(p, TRUE)
    \/ RevokeTokenCall(p, 200)
    \/ AccountStatement(p, TRUE)
    \/ SessionCallback(p)
    \/ DeauthFind(p, TRUE)
    \/ DeauthDelete(p, TRUE)
    \/ GateFind(p, TRUE, 0)
    \/ SleepDone(p)
    \/ PaLoad(p, TRUE, 0)
    \/ PaToken(p, FALSE, 200, BodyServerError, TRUE, 0)
    \/ \E status \in {200, 404} : PaFetch(p, status, BodyServerError, 0)
    \/ PaWeather(p, 200, 0)
    \/ PaUpdate(p, 200, BodyServerError, 0)

SpecConcurrent == Init /\ [][NextConcurrent]_vars

\* ------------------------------------------------------------------------
\* Properties
\* ------------------------------------------------------------------------

Finished(p) == req[p].pc = "done"

\* The body matches the fixed shape of a webhook event (spec, section 4.5).
WellFormed(body) ==
  /\ body.object_type \in {Str("activity"), Str("athlete")}
  /\ body.aspect_type \in
       {Str("create"), Str("update"), Str("delete"), Str("deauthorize")}
  /\ body.object_id.t = "number"
  /\ body.updates.t \in {"undefined", "object"}
  /\ body.owner_id.t = "number"
  /\ body.subscription_id.t = "number"
  /\ body.event_time.t = "number"

IsActivityCreate(body) ==
  body.object_type = Str("activity") /\ body.aspect_type = Str("create")

IsDeauthorize(body) ==
  body.object_type = Str("athlete") /\ body.aspect_type = Str("deauthorize")

\* The error text is not-found/404-shaped, read without regard to case.
NotFoundShaped(text) ==
  \/ includes(toLowerCase(text), TxtNotFound)
  \/ includes(toLowerCase(text), Txt404)

IsFailure(outcome) ==
  outcome.kind = "result" /\ ~outcome.success /\ ~outcome.skipped

\* C1: every POST /webhook whose body passes schema validation is answered
\* with HTTP 200, whatever the lookup, the deletion and the orchestrator do.
C1_ValidEventAnswered200 ==
  \A p \in Procs :
    (Finished(p) /\ WellFormed(req[p].body)) => req[p].status = 200

\* C2: one webhook delivery invokes processActivity at most 3 times, for
\* every sequence of outcomes and every timing.
C2_AtMostThreeInvocations ==
  \A p \in Procs : req[p].invocations <= 3

\* a delivery that used all three invocations and was answered
C2_Witness ==
  \E p \in Procs :
    /\ Finished(p)
    /\ req[p].invocations = 3
    /\ Len(req[p].outcomes) = 3
    /\ req[p].message = "Webhook processed"

\* C3: when processActivity always returns a 404-shaped failure, the time
\* from the start of the request to the response never exceeds 8000 ms plus
\* the duration of one processActivity call, and no attempt begins once the
\* 8000 ms have been reached.
C3_WithinCeilingPlusOneCall ==
  \A p \in Procs :
    ( /\ Finished(p)
      /\ req[p].message = "Webhook processed"
      /\ Len(req[p].outcomes) > 0
      /\ \A i \in 1..Len(req[p].outcomes) :
           /\ IsFailure(req[p].outcomes[i])
           /\ NotFoundShaped(req[p].outcomes[i].error) )
    => /\ req[p].elapsed <= 8000 + req[p].lastDuration
       /\ req[p].lastStart < 8000

\* C4: after an invocation that fails with anything other than a
\* not-found/404-shaped error, a thrown exception included, no further
\* invocation is made for that delivery.
C4_NoRetryAfterNon404OrThrow ==
  \A p \in Procs :
    \A i \in 1..Len(req[p].outcomes) :
      ( \/ req[p].outcomes[i].kind = "threw"
        \/ /\ IsFailure(req[p].outcomes[i])
           /\ ~NotFoundShaped(req[p].outcomes[i].error) )
      => req[p].invocations = i

\* C5: for any interleaving of duplicate deliveries of one activity-create
\* event, at most one description update adding weather text is written.
C5_AtMostOneWeatherWrite == puts <= 1

\* C6: whenever the fetched description already contains weather text, in
\* particular on a call made after a successful enrichment, processActivity
\* returns skipped with reason "Already has weather data" and writes nothing.
C6_MarkedActivityIsSkipped ==
  \A p \in Handlers :
    ( /\ req[p].call.fetched
      /\ \/ \E i \in 1..Len(req[p].call.description) :
              req[p].call.description[i] = "weather"
         \/ req[p].call.enrichedBefore )
    => /\ req[p].pc \notin {"pa_weather", "pa_update"}
       /\ req[p].result.kind = "result"
       /\ req[p].result.skipped
       /\ req[p].result.reason = "Already has weather data"
       /\ ~req[p].call.wrote

\* a call made after a successful enrichment, answered as skipped
C6_Witness ==
  \E p \in Procs :
    /\ req[p].call.fetched
    /\ req[p].call.enrichedBefore
    /\ puts = 1
    /\ req[p].result.skipped
    /\ req[p].result.reason = "Already has weather data"

\* C7: a body that fails schema validation is answered 200 "Invalid event
\* acknowledged"; the orchestrator and the repository are not invoked.
C7_MalformedAcknowledged ==
  \A p \in Procs :
    (req[p].pc # "idle" /\ ~WellFormed(req[p].body))
    => /\ Finished(p)
       /\ req[p].status = 200
       /\ req[p].message = "Invalid event acknowledged"
       /\ req[p].invocations = 0
       /\ req[p].finds = 0
       /\ req[p].deletes = 0

\* a malformed body with a string object type that was acknowledged
C7_Witness ==
  \E p \in Procs :
    /\ Finished(p)
    /\ ~WellFormed(req[p].body)
    /\ req[p].body.object_type = Str("invalid")
    /\ req[p].message = "Invalid event acknowledged"

\* C8: a valid activity/create event whose owner is unknown or has weather
\* disabled is answered 200 "Event acknowledged", processActivity not invoked.
C8_GatedEventAcknowledged ==
  \A p \in Procs :
    ( /\ Finished(p)
      /\ WellFormed(req[p].body)
      /\ IsActivityCreate(req[p].body)
      /\ \/ req[p].body.owner_id = UnknownOwner
         \/ req[p].gate \in {"unknown", "disabled"} )
    => /\ req[p].status = 200
       /\ req[p].message = "Event acknowledged"
       /\ req[p].invocations = 0

\* C9: for every athlete/deauthorize event the account is deleted at most
\* once and the delivery is answered with HTTP 200.
C9_DeauthorizeAnswered200 ==
  /\ \A id \in UserIds : deleted[id] <= 1
  /\ \A p \in Procs :
       ( /\ Finished(p)
         /\ WellFormed(req[p].body)
         /\ IsDeauthorize(req[p].body) )
       => req[p].status = 200

\* C10: a valid event that is neither activity/create nor athlete/deauthorize
\* is answered 200 "Event acknowledged"; nothing is looked up, deleted or
\* processed.
C10_OtherEventsAreNoOps ==
  \A p \in Procs :
    ( /\ Finished(p)
      /\ WellFormed(req[p].body)
      /\ ~IsActivityCreate(req[p].body)
      /\ ~IsDeauthorize(req[p].body) )
    => /\ req[p].status = 200
       /\ req[p].message = "Event acknowledged"
       /\ req[p].invocations = 0
       /\ req[p].finds = 0
       /\ req[p].deletes = 0


\* ------------------------------------------------------------------------
\* StravaApiService.ensureValidToken (stravaApi.ts 211-295)
\* ------------------------------------------------------------------------
\* Times are milliseconds counted from an arbitrary origin.

\* tokenRefreshBuffer = 5 * 60 * 1000
tokenRefreshBuffer == 5 * 60 * 1000

\* refreshAccessToken with every answer of the token URL taken as a success.
refreshAccessToken_SwallowsFailure(status, errorText, tokenData) ==
  [kind |-> "returned",
   access_token |-> tokenData.access_token,
   refresh_token |-> tokenData.refresh_token,
   expires_at |-> tokenData.expires_at]

\* refreshAccessToken: the POST to the token URL answers `status`, 0
\* standing for a fetch that rejected, which throws its own error.  A
\* response that is not ok throws with its text.  The body of an ok response
\* is parsed: response.json() throws on a body that is not JSON (line 239),
\* and the log line that follows throws on an object without expires_at
\* (toISOString of an invalid date, line 242); else the object is returned.
refreshAccessToken(status, errorText, tokenData) ==
  IF status = 0
    THEN [kind |-> "threw", message |-> <<"fetch failed">>]
    ELSE IF status < 200 \/ status > 299
    THEN [kind |-> "threw",
          message |-> TokenRefreshErrorMessage(status, errorText)]
    ELSE IF tokenData.t = "text"
    THEN [kind |-> "threw", message |-> <<"is not valid JSON">>]
    ELSE IF tokenData.t = "no expires_at"
    THEN [kind |-> "threw", message |-> <<"Invalid time value">>]
    ELSE [kind |-> "returned",
          access_token |-> tokenData.access_token,
          refresh_token |-> tokenData.refresh_token,
          expires_at |-> tokenData.expires_at]

\* The comparison of lines 274-276 with the boundary left out.
needsRefresh_StrictBuffer(now, expiresAt) ==
  expiresAt < now + tokenRefreshBuffer

\* lines 273-276: bufferTime = now + tokenRefreshBuffer;
\* expiresAt <= bufferTime
needsRefresh(now, expiresAt) ==
  expiresAt <= now + tokenRefreshBuffer

\* ensureValidToken: `refreshed` is what refreshAccessToken gives when it is
\* called; `fetches` counts the requests sent to the token URL.
ensureValidToken(now, accessToken, refreshToken, expiresAt, refreshed) ==
  IF needsRefresh(now, expiresAt)
    THEN IF refreshed.kind = "threw"
           THEN [kind |-> "threw", message |-> refreshed.message,
                 fetches |-> 1]
           ELSE [kind |-> "returned",
                 accessToken |-> refreshed.access_token,
                 refreshToken |-> refreshed.refresh_token,
                 expiresAt |-> refreshed.expires_at * 1000,
                 wasRefreshed |-> TRUE,
                 fetches |-> 1]
    ELSE [kind |-> "returned",
          accessToken |-> accessToken,
          refreshToken |-> refreshToken,
          expiresAt |-> expiresAt,
          wasRefreshed |-> FALSE,
          fetches |-> 0]

InitToken ==
  LET ExpiryDistances ==
        {0 - 3600000, 0, 240000, tokenRefreshBuffer - 1, tokenRefreshBuffer,
         tokenRefreshBuffer + 1, 360000, 21600000}
  IN
  /\ WebhookIdle
  /\ client = Idle
  /\ weatherCall = Idle
  /\ verification = Idle
  /\ \E now \in {0, 1000, 3600000}, d \in ExpiryDistances :
       tokenCall = [pc |-> "ready", now |-> now,
                    accessToken |-> "current-access-token",
                    refreshToken |-> "current-refresh-token",
                    expiresAt |-> now + d,
                    status |-> 0, errorText |-> <<>>,
                    result |-> [kind |-> "none"]]

\* A call of ensureValidToken with the stored credentials runs up to its
\* first await: a token that is not due comes back at once, for one that is
\* due the request to the token URL is sent (lines 271-279, 218-229).
EnsureValidToken ==
  /\ tokenCall.pc = "ready"
  /\ tokenCall' =
       IF needsRefresh(tokenCall.now, tokenCall.expiresAt)
       THEN [tokenCall EXCEPT !.pc = "fetching"]
       ELSE [tokenCall EXCEPT
               !.pc = "done",
               !.result = ensureValidToken(tokenCall.now,
                            tokenCall.accessToken, tokenCall.refreshToken,
                            tokenCall.expiresAt, [kind |-> "none"])]
  /\ UNCHANGED <<client, weatherCall, verification>>
  /\ UNCHANGED webhookVars

\* await fetch (line 219) settles: a rejected fetch is thrown on to the
\* caller of ensureValidToken, an answer has its body read next (line 233
\* or 239).
RefreshResponds(status) ==
  /\ tokenCall.pc = "fetching"
  /\ tokenCall' =
       IF status = 0
       THEN [tokenCall EXCEPT
               !.pc = "done",
               !.result = ensureValidToken(tokenCall.now,
                            tokenCall.accessToken, tokenCall.refreshToken,
                            tokenCall.expiresAt,
                            refreshAccessToken(0, <<>>,
                              [t |-> "text", access_token |-> "",
                               refresh_token |-> "", expires_at |-> 0]))]
       ELSE [tokenCall EXCEPT !.pc = "reading", !.status = status]
  /\ UNCHANGED <<client, weatherCall, verification>>
  /\ UNCHANGED webhookVars

\* await response.text() or await response.json() settles and
\* refreshAccessToken, and with it ensureValidToken, returns or throws
\* (lines 233-256, 279-293).
RefreshBodyRead(errorText, tokenData) ==
  /\ tokenCall.pc = "reading"
  /\ tokenCall' =
       [tokenCall EXCEPT
          !.pc = "done",
          !.errorText = errorText,
          !.result = ensureValidToken(tokenCall.now, tokenCall.accessToken,
                       tokenCall.refreshToken, tokenCall.expiresAt,
                       refreshAccessToken(tokenCall.status, errorText,
                                          tokenData))]
  /\ UNCHANGED <<client, weatherCall, verification>>
  /\ UNCHANGED webhookVars

\* the bodies the token URL answers with: the token object, an object
\* without expires_at, or a text that is not JSON
NextToken ==
  \/ EnsureValidToken
  \/ \E status \in {200, 400, 401, 0} : RefreshResponds(status)
  \/ \E errorText \in ErrorTexts,
        tokenData \in
          [t : {"object"},
           access_token : {"new-access-token"},
           refresh_token : {"new-refresh-token"},
           expires_at : {21600, 43200}]
          \cup
          [t : {"no expires_at", "text"},
           access_token : {""}, refresh_token : {""}, expires_at : {0}] :
       RefreshBodyRead(errorText, tokenData)

SpecToken == InitToken /\ [][NextToken]_vars

\* C11: ensureValidToken sends a refresh request exactly when the stored
\* expiry is at or before the instant of the call plus five minutes; a token
\* expiring later than that comes back as it was given, with wasRefreshed
\* false and no request sent, and a successful refresh has wasRefreshed true.
C11_RefreshExactlyWithinBuffer ==
  tokenCall.pc = "done" =>
    LET r == tokenCall.result
        due == tokenCall.expiresAt <= tokenCall.now + 5 * 60 * 1000
    IN  /\ (r.fetches = 1) <=> due
        /\ r.fetches \in {0, 1}
        /\ due /\ r.kind = "returned" => r.wasRefreshed
        /\ ~due =>
             /\ r.kind = "returned"
             /\ r.accessToken = tokenCall.accessToken
             /\ r.refreshToken = tokenCall.refreshToken
             /\ r.expiresAt = tokenCall.expiresAt
             /\ ~r.wasRefreshed

\* A call made exactly five minutes before the expiry has refreshed.
C11_Witness ==
  /\ tokenCall.pc = "done"
  /\ tokenCall.expiresAt = tokenCall.now + 5 * 60 * 1000
  /\ tokenCall.result.kind = "returned"
  /\ tokenCall.result.wasRefreshed
  /\ tokenCall.result.fetches = 1

\* ------------------------------------------------------------------------
\* StravaApiService: the rate-limited client (stravaApi.ts 59-206, 329-361)
\* ------------------------------------------------------------------------
\* Callers are enrichment attempts of concurrent deliveries; each checks its
\* token, reads the activity and then writes it, all on the one service
\* object.  Time is a clock in milliseconds that advances in ticks.

NumCallers == 2

Callers == 1..NumCallers

\* the number of ticks after which the clock is no longer advanced
MaxTicks == 2

\* new Bottleneck({ ... }), lines 63-69
LimiterOptions ==
  [minTime |-> 6000, maxConcurrent |-> 1, reservoir |-> 180,
   reservoirRefreshAmount |-> 180, reservoirRefreshInterval |-> 15 * 60 * 1000]

\* the clock's step and the instant after which it is no longer advanced
TickMs == LimiterOptions.minTime

NoRetry == [t |-> "null"]

RECURSIVE pow2(_)
\* Math.pow(2, retryCount)
pow2(n) == IF n = 0 THEN 1 ELSE 2 * pow2(n - 1)

\* lines 72-78: the delay before the next try of a failed job, or null
retryStrategy(retryCount, error) ==
  IF error.statusCode = Num(429)
    THEN Num(5000 * pow2(retryCount))
    ELSE NoRetry

\* handleApiError, lines 329-361: the Error it throws carries a message and
\* no statusCode property.
handleApiError(status, errorText) ==
  [message |-> StravaApiErrorMessage(status, errorText),
   statusCode |-> Absent]

\* metricsService.recordApiCall(apiName, endpoint, duration, status, error):
\* the rows the call leaves in the metrics table.  record() catches an
\* INSERT that fails, logs it and resolves (metricsService.ts 25-45).
recordApiCall(apiName, endpoint, durationMs, statusCode, error, insertOk) ==
  IF insertOk
  THEN <<[metric_name |-> apiName, endpoint |-> endpoint,
          value |-> durationMs, status_code |-> statusCode, error |-> error]>>
  ELSE <<>>

InitClient ==
  LET FreshCaller ==
        [pc |-> "start", accessToken |-> "stored", expiresAt |-> 0,
         refreshAttempted |-> FALSE, usedAt |-> 0 - 1, startTime |-> 0,
         gets |-> 0, puts |-> 0, tries |-> 0, metrics |-> <<>>, error |-> <<>>,
         status |-> 0, errorText |-> <<>>, duration |-> 0,
         thrown |-> [message |-> <<>>, statusCode |-> Absent]]
  IN
  /\ WebhookIdle
  /\ tokenCall = Idle
  /\ weatherCall = Idle
  /\ verification = Idle
  /\ client = [pc |-> "serving", clock |-> 0, running |-> 0, nextRequest |-> 0,
               reservoir |-> LimiterOptions.reservoir, queue |-> <<>>,
               inflight |-> {}, caller |-> [p \in Callers |-> FreshCaller]]

\* A job may start with every concurrency limit ignored.
CanLaunch_NoConcurrencyLimit(c) ==
  /\ c.queue # <<>>
  /\ c.clock >= c.nextRequest
  /\ c.reservoir > 0

\* Bottleneck starts the job at the head of its queue when fewer than
\* maxConcurrent jobs are running, minTime has passed since the last start
\* and the reservoir is not empty.
CanLaunch(c) ==
  /\ c.queue # <<>>
  /\ c.running < LimiterOptions.maxConcurrent
  /\ c.clock >= c.nextRequest
  /\ c.reservoir > 0

\* the next start allowed at once, with no spacing
NextRequestAfter_NoSpacing(clock) ==
  clock

\* Bottleneck: a job started at `clock` moves the earliest instant of the
\* next start to minTime later
NextRequestAfter(clock) ==
  clock + LimiterOptions.minTime

\* this.limiter.schedule(job): the job joins the queue
schedule(c, p) == [c EXCEPT !.queue = Append(@, p)]

\* Step 2 of an enrichment attempt: ensureValidToken runs up to its first
\* await.  A token that is not due is kept and the read is handed to the
\* limiter by the call of getActivity; for one that is due the request to
\* the token URL is sent.
CallerEnsureToken(p, ahead) ==
  /\ client.pc = "serving"
  /\ client.caller[p].pc = "start"
  /\ LET k == [client.caller[p] EXCEPT !.expiresAt = client.clock + ahead]
         t == ensureValidToken(client.clock, k.accessToken, "stored-refresh",
                k.expiresAt, [kind |-> "none"])
     IN  IF needsRefresh(client.clock, k.expiresAt)
           THEN client' = [client EXCEPT !.caller[p] =
                  [k EXCEPT !.pc = "refreshing", !.refreshAttempted = TRUE]]
           ELSE client' = schedule(
                  [client EXCEPT !.caller[p] =
                    [k EXCEPT !.pc = "get_queued",
                              !.accessToken = t.accessToken,
                              !.expiresAt = t.expiresAt]], p)
  /\ UNCHANGED <<tokenCall, weatherCall, verification>>
  /\ UNCHANGED webhookVars

\* The fetch of refreshAccessToken settles (stravaApi.ts 219): a rejected
\* fetch fails the attempt, an answer has its body read next.
CallerRefreshResponds(p, status) ==
  /\ client.pc = "serving"
  /\ client.caller[p].pc = "refreshing"
  /\ LET k == client.caller[p]
     IN  client' = [client EXCEPT !.caller[p] =
           IF status = 0
           THEN [k EXCEPT !.pc = "failed", !.error = <<"fetch failed">>]
           ELSE [k EXCEPT !.pc = "refresh_body", !.status = status]]
  /\ UNCHANGED <<tokenCall, weatherCall, verification>>
  /\ UNCHANGED webhookVars

\* The body of the token response is read (lines 233, 239) and
\* ensureValidToken returns or throws; with the new token the read is
\* handed to the limiter.
CallerRefreshBodyRead(p, errorText, tokenData) ==
  /\ client.pc = "serving"
  /\ client.caller[p].pc = "refresh_body"
  /\ LET k == client.caller[p]
         t == refreshAccessToken(k.status, errorText, tokenData)
     IN  IF t.kind = "threw"
           THEN client' = [client EXCEPT !.caller[p] =
                  [k EXCEPT !.pc = "failed", !.status = 0,
                            !.error = t.message]]
           ELSE client' = schedule(
                  [client EXCEPT !.caller[p] =
                    [k EXCEPT !.pc = "get_queued", !.status = 0,
                              !.accessToken = t.access_token,
                              !.expiresAt = t.expires_at * 1000]], p)
  /\ UNCHANGED <<tokenCall, weatherCall, verification>>
  /\ UNCHANGED webhookVars

\* The limiter starts the job at the head of the queue: the job's fetch is
\* sent now, with the token the caller passed when it called the service.
LimiterLaunch ==
  /\ client.pc = "serving"
  /\ CanLaunch(client)
  /\ LET p == Head(client.queue)
         k == client.caller[p]
         isGet == k.pc = "get_queued"
     IN  client' =
           [client EXCEPT
              !.queue = Tail(@),
              !.running = @ + 1,
              !.reservoir = @ - 1,
              !.nextRequest = NextRequestAfter(client.clock),
              !.inflight = @ \cup {p},
              !.caller[p] =
                [k EXCEPT !.pc = IF isGet THEN "get_running" ELSE "put_running",
                          !.usedAt = client.clock,
                          !.startTime = client.clock,
                          !.gets = IF isGet THEN @ + 1 ELSE @,
                          !.puts = IF isGet THEN @ ELSE @ + 1]]
  /\ UNCHANGED <<tokenCall, weatherCall, verification>>
  /\ UNCHANGED webhookVars

\* A job that threw: the limiter asks retryStrategy whether to run it again.
JobFailed(c, p, k, error, retryPc) ==
  LET delay == retryStrategy(k.tries, error)
  IN  IF delay = NoRetry
        THEN [c EXCEPT !.running = @ - 1, !.inflight = @ \ {p},
                       !.caller[p] = [k EXCEPT !.pc = "failed",
                                               !.error = error.message]]
        ELSE [c EXCEPT !.running = @ - 1, !.inflight = @ \ {p},
                       !.nextRequest = c.clock + delay.n,
                       !.queue = <<p>> \o @,
                       !.caller[p] = [k EXCEPT !.pc = retryPc,
                                               !.tries = @ + 1]]

\* getActivity's job: the fetch settles (stravaApi.ts 104-116); status 0 is
\* a fetch that rejected, which goes to the catch block.  Either way the
\* time the request took is measured now and a metric is being recorded.
GetActivityResponds(p, status) ==
  /\ client.pc = "serving"
  /\ client.caller[p].pc = "get_running"
  /\ LET k == [client.caller[p] EXCEPT
                 !.status = status,
                 !.duration = client.clock - client.caller[p].startTime]
     IN  client' = [client EXCEPT !.caller[p] =
           IF status = 0
           THEN [k EXCEPT !.pc = "get_caught",
                          !.thrown = [message |-> <<"fetch failed">>,
                                      statusCode |-> Absent]]
           ELSE [k EXCEPT !.pc = "get_metric"]]
  /\ UNCHANGED <<tokenCall, weatherCall, verification>>
  /\ UNCHANGED webhookVars

\* lines 116-129: the metric of the answer is recorded, or its INSERT
\* failed, and the body of the response is being read: by handleApiError
\* when the response is not ok, by response.json() when it is.
GetActivityRecorded(p, insertOk) ==
  /\ client.pc = "serving"
  /\ client.caller[p].pc = "get_metric"
  /\ LET k == client.caller[p]
     IN  client' = [client EXCEPT !.caller[p] =
           [k EXCEPT !.pc = "get_body",
                     !.metrics = @ \o recordApiCall("strava_api",
                                        "GET /activities/id", k.duration,
                                        Num(k.status), Absent, insertOk)]]
  /\ UNCHANGED <<tokenCall, weatherCall, verification>>
  /\ UNCHANGED webhookVars

\* lines 125-140: the body is read.  An ok response with a JSON body ends
\* the job; handleApiError's error, or the SyntaxError of a body that is not
\* JSON, goes to the catch block, which measures the time again and records
\* a second metric.
GetActivityBodyRead(p, errorText, isJson) ==
  /\ client.pc = "serving"
  /\ client.caller[p].pc = "get_body"
  /\ LET k == client.caller[p]
         ok == k.status >= 200 /\ k.status <= 299
     IN  client' =
           IF ok /\ isJson
           THEN [client EXCEPT !.running = @ - 1, !.inflight = @ \ {p},
                   !.caller[p] = [k EXCEPT !.pc = "fetched", !.duration = 0]]
           ELSE [client EXCEPT !.caller[p] =
                   [k EXCEPT
                      !.pc = "get_caught",
                      !.errorText = IF ok THEN @ ELSE errorText,
                      !.duration = client.clock - k.startTime,
                      !.thrown =
                        IF ok
                        THEN [message |-> <<"is not valid JSON">>,
                              statusCode |-> Absent]
                        ELSE handleApiError(k.status, errorText)]]
  /\ UNCHANGED <<tokenCall, weatherCall, verification>>
  /\ UNCHANGED webhookVars

\* lines 140-152: the metric of the error is recorded, or its INSERT
\* failed, and the error is thrown to the limiter.
GetActivityCaught(p, insertOk) ==
  /\ client.pc = "serving"
  /\ client.caller[p].pc = "get_caught"
  /\ LET k == client.caller[p]
     IN  client' =
           JobFailed(client, p,
             [k EXCEPT !.duration = 0,
                       !.thrown = [message |-> <<>>, statusCode |-> Absent],
                       !.metrics = @ \o recordApiCall("strava_api",
                                          "GET /activities/id", k.duration,
                                          Absent, Str(k.thrown.message),
                                          insertOk)],
             k.thrown, "get_queued")
  /\ UNCHANGED <<tokenCall, weatherCall, verification>>
  /\ UNCHANGED webhookVars

\* The rest of the attempt up to the call of updateActivity, which hands the
\* write to the limiter with the token checked in step 2.
CallerScheduleUpdate(p) ==
  /\ client.pc = "serving"
  /\ client.caller[p].pc = "fetched"
  /\ client' = schedule([client EXCEPT !.caller[p].pc = "put_queued"], p)
  /\ UNCHANGED <<tokenCall, weatherCall, verification>>
  /\ UNCHANGED webhookVars

\* updateActivity's job: the fetch settles (stravaApi.ts 171-187); a fetch
\* that rejected (status 0) is logged and thrown to the limiter, an answer
\* has its body read next.  Nothing is recorded on either path.
UpdateActivityResponds(p, status) ==
  /\ client.pc = "serving"
  /\ client.caller[p].pc = "put_running"
  /\ LET k == [client.caller[p] EXCEPT !.status = status]
     IN  client' =
           IF status = 0
           THEN JobFailed(client, p, k,
                  [message |-> <<"fetch failed">>, statusCode |-> Absent],
                  "put_queued")
           ELSE [client EXCEPT !.caller[p] = [k EXCEPT !.pc = "put_body"]]
  /\ UNCHANGED <<tokenCall, weatherCall, verification>>
  /\ UNCHANGED webhookVars

\* lines 186-204: the body is read, by handleApiError when the response is
\* not ok and by response.json() when it is.
UpdateActivityBodyRead(p, errorText, isJson) ==
  /\ client.pc = "serving"
  /\ client.caller[p].pc = "put_body"
  /\ LET k == client.caller[p]
         ok == k.status >= 200 /\ k.status <= 299
     IN  client' =
           IF ok /\ isJson
           THEN [client EXCEPT !.running = @ - 1, !.inflight = @ \ {p},
                   !.caller[p] = [k EXCEPT !.pc = "updated"]]
           ELSE IF ok
           THEN JobFailed(client, p, k,
                  [message |-> <<"is not valid JSON">>, statusCode |-> Absent],
                  "put_queued")
           ELSE JobFailed(client, p, [k EXCEPT !.errorText = errorText],
                  handleApiError(k.status, errorText), "put_queued")
  /\ UNCHANGED <<tokenCall, weatherCall, verification>>
  /\ UNCHANGED webhookVars

\* Time passes.
Tick ==
  /\ client.pc = "serving"
  /\ client.clock < MaxTicks * TickMs
  /\ client' = [client EXCEPT !.clock = @ + TickMs]
  /\ UNCHANGED <<tokenCall, weatherCall, verification>>
  /\ UNCHANGED webhookVars

\* How far ahead of the check the stored token expires: exactly the buffer
\* (refresh), one millisecond more (no refresh).
CallerExpiries == {tokenRefreshBuffer, tokenRefreshBuffer + 1}

ClientTokenResponses ==
  [t : {"object"},
   access_token : {"new-access-token"},
   refresh_token : {"new-refresh-token"},
   expires_at : {21600}]
  \cup
  [t : {"text"}, access_token : {""}, refresh_token : {""}, expires_at : {0}]

ClientRefreshStatuses == {200, 400}

ClientErrorTexts == {BodyNotFound}

NextClient ==
  \/ \E p \in Callers, ahead \in CallerExpiries : CallerEnsureToken(p, ahead)
  \/ \E p \in Callers, status \in ClientRefreshStatuses :
       CallerRefreshResponds(p, status)
  \/ \E p \in Callers, errorText \in ClientErrorTexts,
        tokenData \in ClientTokenResponses :
       CallerRefreshBodyRead(p, errorText, tokenData)
  \/ LimiterLaunch
  \/ \E p \in Callers, status \in {200, 429, 0} : GetActivityResponds(p, status)
  \/ \E p \in Callers, insertOk \in BOOLEAN : GetActivityRecorded(p, insertOk)
  \/ \E p \in Callers, errorText \in ClientErrorTexts, isJson \in BOOLEAN :
       GetActivityBodyRead(p, errorText, isJson)
  \/ \E p \in Callers, insertOk \in BOOLEAN : GetActivityCaught(p, insertOk)
  \/ \E p \in Callers : CallerScheduleUpdate(p)
  \/ \E p \in Callers, status \in {200, 429} : UpdateActivityResponds(p, status)
  \/ \E p \in Callers, errorText \in ClientErrorTexts, isJson \in BOOLEAN :
       UpdateActivityBodyRead(p, errorText, isJson)
  \/ Tick

SpecClient == InitClient /\ [][NextClient]_vars

\* C13: at most one getActivity or updateActivity request is in flight.
C13_OneRequestInFlight ==
  client.pc = "serving" =>
    /\ Cardinality(client.inflight) <= 1
    /\ Cardinality({p \in Callers :
         client.caller[p].pc \in {"get_running", "get_metric", "get_body",
                                  "get_caught", "put_running", "put_body"}})
         <= 1

\* A write is in flight while another delivery's read waits in the queue.
C13_Witness ==
  /\ client.pc = "serving"
  /\ \E p, q \in Callers :
       /\ client.caller[p].pc = "put_running"
       /\ client.caller[q].pc = "get_queued"
       /\ client.clock >= client.nextRequest

\* C12: a request to the activity API is never sent with a token later than
\* five minutes before that token's expiry unless a refresh was attempted
\* for it first.
C12_NoUseInsideBufferWithoutRefresh ==
  client.pc = "serving" =>
    \A p \in Callers :
      LET k == client.caller[p]
      IN  k.usedAt >= 0 =>
            \/ k.usedAt <= k.expiresAt - 5 * 60 * 1000
            \/ k.refreshAttempted

\* C14: a getActivity or updateActivity call that failed with the 429
\* message has sent more than one request, having been retried by the
\* limiter after the first 429.
C14_RateLimitedCallIsRetried ==
  client.pc = "serving" =>
    \A p \in Callers :
      LET k == client.caller[p]
      IN  k.pc = "failed" /\ k.error = MsgRateLimit =>
            /\ k.tries > 0
            /\ k.gets + k.puts > 1

\* C18: every request to the activity API that has been answered, or has
\* failed, has left a metric naming its endpoint.
C18_EveryCallRecordsMetric ==
  client.pc = "serving" =>
    \A p \in Callers :
      LET k == client.caller[p]
          recorded(e) == Cardinality({i \in 1..Len(k.metrics) :
                                        k.metrics[i].endpoint = e})
          inGet == k.pc \in {"get_running", "get_metric", "get_body",
                             "get_caught"}
          inPut == k.pc \in {"put_running", "put_body"}
          answeredGets == IF inGet THEN k.gets - 1 ELSE k.gets
          answeredPuts == IF inPut THEN k.puts - 1 ELSE k.puts
      IN  /\ recorded("GET /activities/id") >= answeredGets
          /\ recorded("PUT /activities/id") >= answeredPuts


\* ------------------------------------------------------------------------
\* WeatherService.getWeatherForActivity (weatherService.ts 78-83, 116-185)
\* ------------------------------------------------------------------------

WEATHER_CONFIG ==
  [HISTORICAL_LIMIT_HOURS |-> 120, RECENT_ACTIVITY_THRESHOLD_HOURS |-> 1,
   API_TIMEOUT_MS |-> 5000, DEFAULT_VISIBILITY_M |-> 10000]

\* 1000 * 60 * 60, the divisor of hoursSinceActivity
MsPerHour == 1000 * 60 * 60

\* The selection with an activity exactly one hour old taken as historical.
dataSource_HourIsHistorical(now, activityTime) ==
  LET msSinceActivity == now - activityTime
  IN  IF /\ msSinceActivity >=
              WEATHER_CONFIG.RECENT_ACTIVITY_THRESHOLD_HOURS * MsPerHour
         /\ msSinceActivity <= WEATHER_CONFIG.HISTORICAL_LIMIT_HOURS * MsPerHour
        THEN "historical"
        ELSE IF msSinceActivity <=
                  WEATHER_CONFIG.RECENT_ACTIVITY_THRESHOLD_HOURS * MsPerHour
               THEN "current"
               ELSE "current-fallback"

\* lines 132-163: hoursSinceActivity is the difference in milliseconds
\* divided by 3600000, so comparing it with a number of hours is comparing
\* the difference with that many times 3600000.
dataSource(now, activityTime) ==
  LET msSinceActivity == now - activityTime
  IN  IF /\ msSinceActivity >
              WEATHER_CONFIG.RECENT_ACTIVITY_THRESHOLD_HOURS * MsPerHour
         /\ msSinceActivity <= WEATHER_CONFIG.HISTORICAL_LIMIT_HOURS * MsPerHour
        THEN "historical"
        ELSE IF msSinceActivity <=
                  WEATHER_CONFIG.RECENT_ACTIVITY_THRESHOLD_HOURS * MsPerHour
               THEN "current"
               ELSE "current-fallback"

\* getWeatherForActivity sending a failed request a second time.
getWeatherForActivity_RetriesOnce(now, activityTime, status, body) ==
  LET source == dataSource(now, activityTime)
      url == IF source = "historical" THEN "onecall/timemachine" ELSE "onecall"
      ok == status >= 200 /\ status <= 299
      thrown == IF ok
                  THEN [isAxiosError |-> FALSE, status |-> status,
                        message |-> ReadWeatherData(source, body)]
                  ELSE AxiosError(status)
  IN  IF ok /\ thrown.message = <<>>
        THEN [kind |-> "returned", dataSource |-> source, calls |-> <<url>>,
              message |-> <<>>]
        ELSE [kind |-> "threw", dataSource |-> source, calls |-> <<url, url>>,
              message |-> WeatherErrorMessage(thrown)]

\* getWeatherForActivity called at the instant `now`: the one request it
\* sends and what comes of it.  `status` is the answer of the weather API, 0
\* for a timeout, and `body` the body of an answer.  axios throws for a
\* status outside 2xx; reading a body that lacks what formatWeatherData
\* reads throws too; either error goes through handleApiError and the catch
\* block of lines 174-185.
getWeatherForActivity(now, activityTime, status, body) ==
  LET source == dataSource(now, activityTime)
      url == IF source = "historical" THEN "onecall/timemachine" ELSE "onecall"
      ok == status >= 200 /\ status <= 299
      thrown == IF ok
                  THEN [isAxiosError |-> FALSE, status |-> status,
                        message |-> ReadWeatherData(source, body)]
                  ELSE AxiosError(status)
  IN  IF ok /\ thrown.message = <<>>
        THEN [kind |-> "returned", dataSource |-> source, calls |-> <<url>>,
              message |-> <<>>]
        ELSE [kind |-> "threw", dataSource |-> source, calls |-> <<url>>,
              message |-> WeatherErrorMessage(thrown)]

\* calls of getWeatherForActivity made one after another for one activity
MaxWeatherCalls == 2

\* bodies of an answer of the weather API: one with everything
\* formatWeatherData reads, and one for each thing that can be missing
WeatherBodies ==
  LET Complete == [data |-> "object", payload |-> "object",
                   weather |-> "item", dt |-> TRUE]
  IN {Complete,
      [Complete EXCEPT !.data = "undefined"],
      [Complete EXCEPT !.data = "null"],
      [Complete EXCEPT !.data = "text"],
      [Complete EXCEPT !.payload = "absent"],
      [Complete EXCEPT !.payload = "empty"],
      [Complete EXCEPT !.weather = "absent"],
      [Complete EXCEPT !.weather = "empty"],
      [Complete EXCEPT !.dt = FALSE]}

InitWeather ==
  LET ActivityAges ==
        {0 - MsPerHour, 0, 1800000, MsPerHour - 1, MsPerHour, MsPerHour + 1,
         16200000, 120 * MsPerHour - 1, 120 * MsPerHour, 120 * MsPerHour + 1,
         604800000}
  IN
  /\ WebhookIdle
  /\ tokenCall = Idle
  /\ client = Idle
  /\ verification = Idle
  /\ \E clock \in {604800000, 800000000}, age \in ActivityAges :
       weatherCall = [pc |-> "ready", clock |-> clock, now |-> 0,
                      startTime |-> 0, activityTime |-> clock - age,
                      callsMade |-> 0, requests |-> 0, status |-> 0,
                      body |-> [data |-> "object", payload |-> "object",
                                weather |-> "item", dt |-> TRUE],
                      duration |-> 0, metrics |-> <<>>, endpoint |-> "",
                      chosen |-> <<>>,
                      result |-> [kind |-> "none", dataSource |-> "",
                                  calls |-> <<>>, message |-> <<>>]]

\* A call of getWeatherForActivity, made `elapsed` ms after the last thing
\* that happened, runs up to its first await: it reads the clock, chooses
\* the source and sends the request (lines 130-162, 212-217, 274-279).  The
\* service may be called again with the same coordinates and time; the
\* metrics kept are those of the call in progress, and `chosen` lists the
\* sources of the calls made so far.
GetWeatherForActivity(elapsed) ==
  /\ weatherCall.pc \in {"ready", "done"}
  /\ weatherCall.callsMade < MaxWeatherCalls
  /\ LET now == weatherCall.clock + elapsed
     IN  weatherCall' =
           [weatherCall EXCEPT
              !.pc = "requesting",
              !.clock = now,
              !.now = now,
              !.startTime = now,
              !.callsMade = @ + 1,
              !.metrics = <<>>,
              !.endpoint =
                IF dataSource(now, weatherCall.activityTime) = "historical"
                THEN "GET /timemachine" ELSE "GET /onecall",
              !.chosen =
                Append(@, dataSource(now, weatherCall.activityTime))]
  /\ UNCHANGED <<tokenCall, client, verification>>
  /\ UNCHANGED webhookVars

\* axios.get settles `elapsed` ms after the request: with a 2xx answer,
\* whose metric is being recorded next, or by throwing, on any other status
\* and on a timeout, which goes to the catch block (lines 214-220, 230-232).
WeatherResponds(status, body, elapsed) ==
  /\ weatherCall.pc = "requesting"
  /\ LET ok == status >= 200 /\ status <= 299
     IN  weatherCall' =
           [weatherCall EXCEPT
              !.pc = IF ok THEN "metric" ELSE "caught",
              !.clock = @ + elapsed,
              !.status = status,
              !.body = IF ok THEN body ELSE @,
              !.duration = weatherCall.clock + elapsed - weatherCall.startTime]
  /\ UNCHANGED <<tokenCall, client, verification>>
  /\ UNCHANGED webhookVars

\* lines 220-232: `elapsed` ms later the metric of the answer is recorded,
\* or its INSERT failed, and the data are read and formatted: the call
\* returns, or reading throws and the catch block measures the time again.
WeatherRecorded(insertOk, elapsed) ==
  /\ weatherCall.pc = "metric"
  /\ LET w == [weatherCall EXCEPT
                 !.clock = @ + elapsed,
                 !.metrics = @ \o recordApiCall("weather_api",
                                    weatherCall.endpoint, weatherCall.duration,
                                    Num(weatherCall.status), Absent, insertOk)]
         result == getWeatherForActivity(w.now, w.activityTime, w.status,
                                         w.body)
     IN  weatherCall' =
           IF result.kind = "returned"
           THEN [w EXCEPT !.pc = "done", !.duration = 0,
                          !.requests = @ + Len(result.calls),
                          !.result = result]
           ELSE [w EXCEPT !.pc = "caught",
                          !.duration = w.clock - w.startTime]
  /\ UNCHANGED <<tokenCall, client, verification>>
  /\ UNCHANGED webhookVars

\* lines 232-239 and 174-185: the metric of the error is recorded, or its
\* INSERT failed; handleApiError throws and getWeatherForActivity rethrows.
WeatherCaught(insertOk) ==
  /\ weatherCall.pc = "caught"
  /\ LET w == weatherCall
         source == dataSource(w.now, w.activityTime)
         caught == IF w.status >= 200 /\ w.status <= 299
                     THEN ReadWeatherData(source, w.body)
                     ELSE AxiosError(w.status).message
         result == getWeatherForActivity(w.now, w.activityTime, w.status,
                                         w.body)
     IN  weatherCall' =
           [w EXCEPT !.pc = "done", !.duration = 0,
                     !.requests = @ + Len(result.calls),
                     !.result = result,
                     !.metrics = @ \o recordApiCall("weather_api",
                                        w.endpoint, w.duration, Absent,
                                        Str(caught), insertOk)]
  /\ UNCHANGED <<tokenCall, client, verification>>
  /\ UNCHANGED webhookVars

NextWeather ==
  \/ \E elapsed \in {0, 40} : GetWeatherForActivity(elapsed)
  \/ \E status \in WeatherStatuses, body \in WeatherBodies,
        elapsed \in {0, 40} :
       WeatherResponds(status, body, elapsed)
  \/ \E insertOk \in BOOLEAN, elapsed \in {0, 40} :
       WeatherRecorded(insertOk, elapsed)
  \/ \E insertOk \in BOOLEAN : WeatherCaught(insertOk)

SpecWeather == InitWeather /\ [][NextWeather]_vars

\* C15: the one request of getWeatherForActivity goes to the current-
\* conditions endpoint when the activity is at most one hour old (or in the
\* future) or more than 120 hours old, and to the time-machine endpoint when
\* it is more than one hour and at most 120 hours old.
C15_EndpointByAge ==
  weatherCall.pc = "done" =>
    LET D == weatherCall.now - weatherCall.activityTime
        calls == weatherCall.result.calls
    IN  /\ D <= 3600000 => calls = <<"onecall">>
        /\ D > 3600000 /\ D <= 432000000 => calls = <<"onecall/timemachine">>
        /\ D > 432000000 => calls = <<"onecall">>

\* An activity exactly 120 hours old was resolved from the time machine and,
\* called again 40 ms later, from the current conditions.
C15_Witness ==
  /\ weatherCall.pc = "done"
  /\ weatherCall.chosen = <<"historical", "current-fallback">>
  /\ weatherCall.now - weatherCall.activityTime = 432000040
  /\ weatherCall.result.calls = <<"onecall">>
  /\ weatherCall.result.kind = "returned"


\* ------------------------------------------------------------------------
\* GET /webhook: subscription verification (strava.ts 50-72)
\* ------------------------------------------------------------------------
\* A query parameter is absent, a string, or an array of strings when the
\* key is given more than once.

\* a === b for query values: strings by value, undefined with undefined, an
\* array with nothing but itself
StrictEquals(a, b) == a.t # "array" /\ a = b

\* The handler with the mode left unchecked.
verifyWebhook_TokenOnly(verifyToken, query) ==
  IF StrictEquals(query.token, verifyToken)
    THEN [status |-> 200, body |-> [challenge |-> query.challenge]]
    ELSE [status |-> 403, body |-> [error |-> "Verification failed"]]

\* lines 51-71: the answer to a verification request
verifyWebhook(verifyToken, query) ==
  IF /\ StrictEquals(query.mode, Str("subscribe"))
     /\ StrictEquals(query.token, verifyToken)
    THEN [status |-> 200, body |-> [challenge |-> query.challenge]]
    ELSE [status |-> 403, body |-> [error |-> "Verification failed"]]

InitVerify ==
  /\ WebhookIdle
  /\ tokenCall = Idle
  /\ client = Idle
  /\ weatherCall = Idle
  /\ \E verifyToken \in {Str("test-webhook-token"), Str("")} :
       verification = [pc |-> "ready", verifyToken |-> verifyToken]

GetWebhook(query) ==
  /\ verification.pc = "ready"
  /\ verification' =
       [verification EXCEPT !.pc = "done"] @@
       [query |-> query,
        response |-> verifyWebhook(verification.verifyToken, query)]
  /\ UNCHANGED <<tokenCall, client, weatherCall>>
  /\ UNCHANGED webhookVars

NextVerify ==
  \E query \in
       [mode : {Absent, Str("subscribe"), Str("unsubscribe"),
                Str("Subscribe")},
        token : {Absent, Str(""), Str("test-webhook-token"),
                 Str("wrong-token"),
                 Arr(<<"test-webhook-token", "test-webhook-token">>)},
        challenge : {Absent, Str("test-challenge-123"), Str("")}] :
    GetWebhook(query)

SpecVerify == InitVerify /\ [][NextVerify]_vars

\* C16: a verification request is answered 200 with its own challenge when
\* its mode is 'subscribe' and its token is the configured one, and 403
\* 'Verification failed' in every other case, a missing mode or token
\* included.
C16_ChallengeOnlyForSubscribeWithToken ==
  verification.pc = "done" =>
    LET q == verification.query
        r == verification.response
        accepted == /\ q.mode = [t |-> "string", s |-> "subscribe"]
                    /\ q.token = verification.verifyToken
    IN  /\ accepted => r.status = 200 /\ r.body = [challenge |-> q.challenge]
        /\ ~accepted =>
             r.status = 403 /\ r.body = [error |-> "Verification failed"]
        /\ q.mode.t = "undefined" \/ q.token.t = "undefined" => r.status = 403

\* A request with the right token and no mode has been refused.
C16_Witness ==
  /\ verification.pc = "done"
  /\ verification.query.mode.t = "undefined"
  /\ verification.query.token = verification.verifyToken
  /\ verification.response.status = 403


\* ------------------------------------------------------------------------
\* DELETE /auth/revoke on its own (auth router 201-245, stravaApi.ts
\* 300-324)
\* ------------------------------------------------------------------------

\* what the users table holds when the request arrives: for the athlete of
\* the session no row, a row without a token or a row with a token, and
\* likewise for a second athlete
InitRevoke ==
  LET StoredAccounts ==
        {NoUser,
         [id |-> "user-123", stravaAthleteId |-> <<"1", "2", "3", "4", "5">>,
          weatherEnabled |-> TRUE, accessToken |-> ""],
         KnownUser(TRUE), KnownUser(FALSE)}
      OtherAccounts ==
        {NoUser} \cup
        {[id |-> "user-456", stravaAthleteId |-> <<"6", "7", "8", "9", "0">>,
          weatherEnabled |-> TRUE, accessToken |-> token] :
           token \in {"", "stored"}}
  IN
  /\ req = [p \in Handlers |-> FreshRequest(0)]
  /\ \E account \in StoredAccounts, other \in OtherAccounts :
       users = {account, other} \ {NoUser}
  /\ activity = [description |-> <<>>, hasCoordinates |-> TRUE]
  /\ puts = 0
  /\ deleted = [id \in UserIds |-> 0]
  /\ tokenCall = Idle
  /\ client = Idle
  /\ weatherCall = Idle
  /\ verification = Idle

NextRevoke ==
  \E p \in {SessionProc} :
    \/ \E session \in Sessions, lookupOk \in BOOLEAN :
         AuthRevoke(p, session, lookupOk, 1)
    \/ \E queryOk \in BOOLEAN : RevokeFind(p, queryOk)
    \/ \E status \in {200, 400, 401, 403, 500, 0} : RevokeTokenCall(p, status)
    \/ \E queryOk \in BOOLEAN : AccountStatement(p, queryOk)
    \/ SessionCallback(p)

SpecRevoke == InitRevoke /\ [][NextRevoke]_vars

\* C17: a call of revokeToken resolves whatever the deauthorize endpoint
\* answers, and an authenticated DELETE /auth/revoke that has been answered
\* has attempted the account deletion exactly once.
C17_RevokeNeverBlocksDeletion ==
  \A p \in Handlers :
    LET r == req[p]
    IN  r.route = "revoke" =>
          /\ r.revoked.kind \in {"none", "resolved"}
          /\ r.pc = "done" /\ r.user # NoUser => r.deletes = 1

\* The deauthorize endpoint answered 500 and the account was deleted.
C17_Witness ==
  \E p \in Handlers :
    /\ req[p].route = "revoke"
    /\ req[p].pc = "done"
    /\ req[p].revoked.kind = "resolved"
    /\ req[p].revoked.logged = "warn"
    /\ req[p].revoked.status = 500
    /\ req[p].deletes = 1
    /\ req[p].status = 200


\* ------------------------------------------------------------------------
\* POST /webhook: the sleeps of the retry loop and the count it reports
\* ------------------------------------------------------------------------

\* C19: within one delivery the first call of processActivity is made without
\* a sleep, and every later call is made by a handler that was sleeping and
\* starts the call when the sleep is over: 1500 ms after the first call
\* ended, 3000 ms after the end of any later call.
C19_SleepBeforeEveryRetry ==
  [][\A p \in Procs :
       LET r == req[p]
           after == req'[p]
           n == r.invocations
           delay == IF n = 1 THEN 1500 ELSE 3000
       IN  (after.served = r.served /\ after.invocations = n + 1) =>
             IF n = 0
               THEN after.slept = <<>> /\ r.pc # "sleeping"
               ELSE /\ r.pc = "sleeping"
                    /\ after.slept = Append(r.slept, delay)
                    /\ Len(after.slept) = n
                    /\ after.lastStart = r.elapsed + delay]_vars

\* A delivery has made three calls, sleeping 1500 ms and then 3000 ms.
C19_Witness ==
  \E p \in Procs :
    /\ req[p].invocations = 3
    /\ req[p].slept = <<1500, 3000>>
    /\ req[p].pc = "pa_load"

\* C20: a call of processActivity that returned success or skipped is the
\* last of its delivery: the handler has answered without sleeping or calling
\* again, and the answer's attempts is the number of calls before it, all of
\* which failed or threw.
C20_SuccessEndsLoop ==
  \A p \in Procs :
    \A i \in 1..Len(req[p].outcomes) :
      LET r == req[p]
          o == r.outcomes[i]
      IN  o.kind = "result" /\ (o.success \/ o.skipped) =>
            /\ i = Len(r.outcomes)
            /\ r.invocations = i
            /\ Len(r.slept) = i - 1
            /\ r.pc = "done"
            /\ r.message = "Webhook processed"
            /\ r.respAttempts = i - 1
            /\ \A j \in 1..(i - 1) :
                 r.outcomes[j].kind = "threw" \/ IsFailure(r.outcomes[j])

\* A delivery whose second call succeeded has answered with attempts 1.
C20_Witness ==
  \E p \in Procs :
    /\ Finished(p)
    /\ Len(req[p].outcomes) = 2
    /\ IsFailure(req[p].outcomes[1])
    /\ req[p].outcomes[2].kind = "result"
    /\ req[p].outcomes[2].success
    /\ ~req[p].outcomes[2].skipped
    /\ req[p].respAttempts = 1
    /\ req[p].respSuccess


\* ------------------------------------------------------------------------
\* POST /webhook: exceptions of processActivity and the reported flags
\* ------------------------------------------------------------------------

\* C21: a delivery in which processActivity was called is answered 200
\* 'Webhook processed' whatever the calls threw, and when every call threw
\* the answer carries success false and skipped false.
C21_ThrownAttemptsStillAnswered200 ==
  \A p \in Procs :
    LET r == req[p]
    IN  Finished(p) /\ r.invocations > 0 =>
          /\ r.status = 200
          /\ r.message = "Webhook processed"
          /\ (\A i \in 1..Len(r.outcomes) : r.outcomes[i].kind = "threw") =>
               ~r.respSuccess /\ ~r.respSkipped

\* Three calls of one delivery threw and the delivery was answered 200.
C21_Witness ==
  \E p \in Procs :
    /\ Finished(p)
    /\ Len(req[p].outcomes) = 3
    /\ \A i \in 1..3 : req[p].outcomes[i].kind = "threw"
    /\ req[p].status = 200
    /\ req[p].respAttempts = 3


\* ------------------------------------------------------------------------
\* ensureValidToken: a refresh that fails
\* ------------------------------------------------------------------------

\* C22: when the token endpoint answers a refresh with a status outside
\* 200..299, or the request itself fails, ensureValidToken throws instead of
\* returning a token pair, having sent one request; for an answered request
\* the message names the status and carries the response body.
C22_FailedRefreshThrows ==
  (/\ tokenCall.pc = "done"
   /\ tokenCall.expiresAt <= tokenCall.now + 5 * 60 * 1000
   /\ (tokenCall.status < 200 \/ tokenCall.status > 299)) =>
    LET r == tokenCall.result
    IN  /\ r.kind = "threw"
        /\ r.fetches = 1
        /\ tokenCall.status # 0 =>
             /\ includes(r.message,
                  <<"(">> \o toString(tokenCall.status) \o <<")">>)
             /\ includes(r.message, tokenCall.errorText)
             /\ includes(r.message, <<"f", "a", "i", "l", "e", "d">>)

\* A refresh answered 400 has made ensureValidToken throw.
C22_Witness ==
  /\ tokenCall.pc = "done"
  /\ tokenCall.status = 400
  /\ tokenCall.result.kind = "threw"
  /\ tokenCall.result.fetches = 1
  /\ tokenCall.result.message =
       TokenRefreshErrorMessage(400, tokenCall.errorText)


\* ------------------------------------------------------------------------
\* getWeatherForActivity: one request per call
\* ------------------------------------------------------------------------

\* C23: every call of getWeatherForActivity sends exactly one request to the
\* weather provider, also when the same coordinates and time were resolved
\* just before, and a request that fails is not sent again: the call throws
\* an error that begins 'Failed to fetch weather data'.
C23_OneRequestPerWeatherCall ==
  weatherCall.pc = "done" =>
    /\ weatherCall.requests = weatherCall.callsMade
    /\ Len(weatherCall.result.calls) = 1
    /\ ~(weatherCall.status >= 200 /\ weatherCall.status <= 299) =>
         /\ weatherCall.result.kind = "threw"
         /\ SubSeq(weatherCall.result.message, 1, 28) =
              <<"F", "a", "i", "l", "e", "d", " ", "t", "o", " ", "f", "e",
                "t", "c", "h", " ", "w", "e", "a", "t", "h", "e", "r", " ",
                "d", "a", "t", "a">>

\* The second call for the same activity failed after sending its request.
C23_Witness ==
  /\ weatherCall.pc = "done"
  /\ weatherCall.callsMade = 2
  /\ weatherCall.requests = 2
  /\ weatherCall.result.kind = "threw"


\* ------------------------------------------------------------------------
\* The rate-limited client: answers other than 2xx and 429
\* ------------------------------------------------------------------------
\* One caller, every status the tests use and both response bodies.

NextClientErrors ==
  \/ \E ahead \in CallerExpiries : CallerEnsureToken(1, ahead)
  \/ \E status \in ClientRefreshStatuses : CallerRefreshResponds(1, status)
  \/ \E errorText \in ClientErrorTexts, tokenData \in ClientTokenResponses :
       CallerRefreshBodyRead(1, errorText, tokenData)
  \/ LimiterLaunch
  \/ \E status \in {200, 400, 401, 403, 404, 500} :
       GetActivityResponds(1, status)
  \/ \E insertOk \in BOOLEAN : GetActivityRecorded(1, insertOk)
  \/ \E errorText \in ErrorTexts, isJson \in BOOLEAN :
       GetActivityBodyRead(1, errorText, isJson)
  \/ \E insertOk \in BOOLEAN : GetActivityCaught(1, insertOk)
  \/ CallerScheduleUpdate(1)
  \/ \E status \in {200, 400, 401, 403, 404, 500} :
       UpdateActivityResponds(1, status)
  \/ \E errorText \in ErrorTexts, isJson \in BOOLEAN :
       UpdateActivityBodyRead(1, errorText, isJson)
  \/ Tick

SpecClientErrors == InitClient /\ [][NextClientErrors]_vars

\* C24: a getActivity or updateActivity call answered with a status that is
\* neither 2xx nor 429 has sent one request and failed with the message of
\* its status: 401, 403 and 404 have their own, every other status gives
\* 'Strava API error (<status>): <body>'.
C24_ErrorChosenByStatus ==
  client.pc = "serving" =>
    \A p \in Callers :
      LET k == client.caller[p]
          generic == <<"S", "t", "r", "a", "v", "a", " ", "A", "P", "I", " ",
                       "e", "r", "r", "o", "r", " ", "(">>
                     \o toString(k.status) \o <<")", ":", " ">> \o k.errorText
      IN  (/\ k.pc = "failed"
           /\ k.status \notin {0, 429}
           /\ (k.status < 200 \/ k.status > 299)) =>
            /\ k.tries = 0
            /\ k.gets = 1
            /\ k.puts <= 1
            /\ k.error = CASE k.status = 401 -> MsgTokenInvalid
                           [] k.status = 403 -> MsgForbidden
                           [] k.status = 404 -> MsgResourceNotFound
                           [] OTHER -> generic

\* A write answered 403 has failed after one read and one write request.
C24_Witness ==
  /\ client.pc = "serving"
  /\ client.caller[1].pc = "failed"
  /\ client.caller[1].status = 403
  /\ client.caller[1].puts = 1
  /\ client.caller[1].error = MsgForbidden


\* ------------------------------------------------------------------------
\* WeatherService.formatWeatherData: visibility (weatherService.ts 311-332)
\* ------------------------------------------------------------------------

\* Math.round((data.visibility || WEATHER_CONFIG.DEFAULT_VISIBILITY_M) / 1000)
\* Math.round(n / d) for n >= 0 and d > 0: halves round up
\* a || b for a value that is a number or undefined: 0 is falsy
formatVisibility(visibility) ==
  LET MathRoundDiv(n, d) == (2 * n + d) \div (2 * d)
      OrElse(a, b) ==
        IF a.t = "undefined" \/ (a.t = "number" /\ a.n = 0) THEN b ELSE a
  IN
  MathRoundDiv(OrElse(visibility, Num(WEATHER_CONFIG.DEFAULT_VISIBILITY_M)).n,
               1000)

InitFormat ==
  /\ WebhookIdle
  /\ tokenCall = Idle
  /\ client = Idle
  /\ verification = Idle
  /\ \E v \in ({Absent} \cup {Num(250 * i) : i \in 0..80}
                      \cup {Num(1), Num(499), Num(15499)}) :
       weatherCall = [pc |-> "unformatted", visibility |-> v, formatted |-> 0]

FormatWeatherData ==
  /\ weatherCall.pc = "unformatted"
  /\ weatherCall' =
       [weatherCall EXCEPT !.pc = "formatted",
                           !.formatted = formatVisibility(weatherCall.visibility)]
  /\ UNCHANGED <<tokenCall, client, verification>>
  /\ UNCHANGED webhookVars

NextFormat == FormatWeatherData

SpecFormat == InitFormat /\ [][NextFormat]_vars

\* C26: the visibility of a weather record is the provider's value in metres
\* divided by 1000 and rounded to the nearest kilometre whenever a value was
\* supplied, 0 included, and 10 only when the field was omitted.
C26_VisibilityRoundedUnlessOmitted ==
  weatherCall.pc = "formatted" =>
    LET v == weatherCall.visibility
    IN  /\ v.t = "number" =>
             /\ 1000 * weatherCall.formatted - 500 <= v.n
             /\ v.n < 1000 * weatherCall.formatted + 500
        /\ v.t = "undefined" => weatherCall.formatted = 10


\* ------------------------------------------------------------------------
\* The limiter over a whole reservoir interval (stravaApi.ts 63-69)
\* ------------------------------------------------------------------------
\* Jobs are the getActivity and updateActivity calls of any caller; only
\* their arrival, start and end matter here.  The clock advances in steps of
\* minTime until it has passed the first refresh of the reservoir.

HorizonTicks == 152

\* queued jobs beyond which no further arrival is modelled
MaxQueued == 2

InitLimiter ==
  /\ WebhookIdle
  /\ tokenCall = Idle
  /\ weatherCall = Idle
  /\ verification = Idle
  /\ client = [pc |-> "limiting", clock |-> 0, running |-> 0,
               nextRequest |-> 0, reservoir |-> LimiterOptions.reservoir,
               queue |-> <<>>, lastRefresh |-> 0, recentStart |-> 0 - 1,
               startedInInterval |-> 0, startedWaited |-> FALSE]

\* limiter.schedule is called: the job joins the queue.  `waited` notes
\* whether it could not be started at the instant it arrived.
JobArrives ==
  /\ client.pc = "limiting"
  /\ Len(client.queue) < MaxQueued
  /\ LET alone == [client EXCEPT !.queue = <<>>]
         job == [waited |-> client.queue # <<>>
                            \/ ~CanLaunch(schedule(alone, [waited |-> FALSE]))]
     IN  client' = schedule(client, job)
  /\ UNCHANGED <<tokenCall, weatherCall, verification>>
  /\ UNCHANGED webhookVars

\* The limiter starts the job at the head of the queue.  recentStart is the
\* instant of the last start while less than minTime has passed since.
JobStarts ==
  /\ client.pc = "limiting"
  /\ CanLaunch(client)
  /\ client' = [client EXCEPT
                  !.queue = Tail(@),
                  !.running = @ + 1,
                  !.reservoir = @ - 1,
                  !.nextRequest = NextRequestAfter(client.clock),
                  !.recentStart = client.clock,
                  !.startedInInterval = @ + 1,
                  !.startedWaited = Head(client.queue).waited]
  /\ UNCHANGED <<tokenCall, weatherCall, verification>>
  /\ UNCHANGED webhookVars

\* The running job's promise settles.
JobFinishes ==
  /\ client.pc = "limiting"
  /\ client.running > 0
  /\ client' = [client EXCEPT !.running = @ - 1]
  /\ UNCHANGED <<tokenCall, weatherCall, verification>>
  /\ UNCHANGED webhookVars

\* Time passes; every reservoirRefreshInterval the reservoir is set back to
\* reservoirRefreshAmount.  A nextRequest that lies in the past allows a
\* start at once, exactly as one at the present instant does, so it is kept
\* at the present instant.
LimiterTick ==
  /\ client.pc = "limiting"
  /\ client.clock < HorizonTicks * TickMs
  /\ LET now == client.clock + TickMs
         due == now - client.lastRefresh >= LimiterOptions.reservoirRefreshInterval
     IN  client' =
           [client EXCEPT
              !.clock = now,
              !.nextRequest = IF @ < now THEN now ELSE @,
              !.recentStart = IF now - @ >= LimiterOptions.minTime
                                THEN 0 - 1 ELSE @,
              !.reservoir = IF due THEN LimiterOptions.reservoirRefreshAmount
                            ELSE @,
              !.lastRefresh = IF due THEN now ELSE @,
              !.startedInInterval = IF due THEN 0 ELSE @]
  /\ UNCHANGED <<tokenCall, weatherCall, verification>>
  /\ UNCHANGED webhookVars

NextLimiter == JobArrives \/ JobStarts \/ JobFinishes \/ LimiterTick

SpecLimiter == InitLimiter /\ [][NextLimiter]_vars

\* C25: a request is started only when no other was started in the 6000 ms
\* before it; at most 180 are started between two refreshes of the
\* reservoir; and a job leaves the queue only by being started, so one that
\* arrives when it cannot be started stays queued until it is.
C25_SpacingReservoirAndQueue ==
  [][client.pc = "limiting" =>
       /\ client'.running > client.running =>
            /\ client.recentStart = 0 - 1
            /\ client.queue # <<>>
            /\ client'.queue = Tail(client.queue)
       /\ client'.startedInInterval <= 180
       /\ client'.queue # client.queue =>
            \/ client'.running = client.running + 1
            \/ /\ Len(client'.queue) = Len(client.queue) + 1
               /\ SubSeq(client'.queue, 1, Len(client.queue)) = client.queue]_vars

\* A job that had to wait was started in the second reservoir interval.
C25_Witness ==
  /\ client.pc = "limiting"
  /\ client.startedWaited
  /\ client.running = 1
  /\ client.lastRefresh > 0


\* ------------------------------------------------------------------------
\* POST /webhook: what makes the loop try again
\* ------------------------------------------------------------------------

\* C27: the handler decides on a further attempt after a failure outcome
\* only when that outcome came from the activity API answering 404 to the
\* read or the write; a failure of the weather provider, or any other status
\* of the activity API, whatever its body, is never followed by a retry.
C27_RetryOnlyAfterActivityApi404 ==
  [][\A p \in Procs :
       LET r == req[p]
           after == req'[p]
           last == after.outcomes[Len(after.outcomes)]
       IN  (/\ after.served = r.served
            /\ r.pc # "sleeping"
            /\ after.pc = "sleeping"
            /\ last.kind = "result") =>
             /\ r.pc \in {"pa_fetch", "pa_update"}
             /\ last.error = MsgResourceNotFound]_vars


\* C28: a delivery of a new activity whose owner is a known account with
\* weather enabled is not acknowledged before processActivity has been
\* called at least once, however long the account lookup took.
C28_EnabledOwnerIsProcessedOnce ==
  \A p \in Procs :
    LET r == req[p]
    IN  (/\ Finished(p)
         /\ r.status = 200
         /\ IsActivityCreate(r.body)
         /\ r.gate = "enabled") => r.invocations >= 1

\* ------------------------------------------------------------------------
\* C29: the flags of the 'Webhook processed' response never overstate the
\* outcome.  success is reported true only if the last call of
\* processActivity of the delivery returned a result with success true, and
\* skipped is reported true only if it returned a result with skipped true;
\* after a call that threw, or without any call, both flags are false.
\* ------------------------------------------------------------------------
C29_FlagsNeverOverstate ==
  \A p \in Procs :
    LET r == req[p]
        n == Len(r.outcomes)
    IN  (Finished(p) /\ r.message = "Webhook processed") =>
          /\ r.respSuccess =>
                /\ n > 0
                /\ r.outcomes[n].kind = "result"
                /\ r.outcomes[n].success
          /\ r.respSkipped =>
                /\ n > 0
                /\ r.outcomes[n].kind = "result"
                /\ r.outcomes[n].skipped

\* A delivery whose first call returned a not-found failure and whose last
\* call threw, answered with both flags false.
C29_Witness ==
  \E p \in Procs :
    /\ Finished(p)
    /\ req[p].message = "Webhook processed"
    /\ Len(req[p].outcomes) >= 2
    /\ req[p].outcomes[1].kind = "result"
    /\ IsFailure(req[p].outcomes[1])
    /\ req[p].outcomes[Len(req[p].outcomes)].kind = "threw"
    /\ ~req[p].respSuccess
    /\ ~req[p].respSkipped

\* ------------------------------------------------------------------------
\* C30: once a deauthorization of the athlete has been answered with
\* 'Deauthorization processed', no enrichment for that athlete writes an
\* activity update upstream any more, an enrichment that was past the
\* account gate when the account was deleted included.
\* ------------------------------------------------------------------------
C30_NoWriteAfterDeauthorization ==
  [][ (\E d \in Procs :
         /\ Finished(d)
         /\ req[d].message = "Deauthorization processed")
      => puts' = puts ]_vars

============================================================================
